---------------------------- MODULE Spec2Model ----------------------------
(***************************************************************************)
(* A model of tidal_bot: the track identity predicate (api.py), the        *)
(* de-duplication of a fetched Spotify track list (spotify.py) and the     *)
(* merge of a source playlist into a Tidal playlist (tidal.py).            *)
(*                                                                         *)
(* Strings are sequences of one-character strings.  An optional value is   *)
(* a sequence of length at most one: None is << >>, a present value v is   *)
(* <<v>>.  Durations are in milliseconds (Spotify reports milliseconds,    *)
(* Tidal whole seconds).  A character outside ASCII is written as a name:  *)
(* "e-acute" is U+00E9 and "cyr-ya" is U+044F.                             *)
(***************************************************************************)
EXTENDS Integers, Sequences, FiniteSets, TLC

VARIABLES
    eqOp,       \* which comparison ran last: "none", "eq" or "parsed"
    eqA,        \* left operand of Track.__eq__
    eqB,        \* right operand of Track.__eq__
    eqOut,      \* [ab, ba, aa]: a == b, b == a, a == a
    spPc,       \* MySpotify._get_tracks_from_playlist: "start", "fetch", "returned", "failed"
    spOffset,   \* its offset
    spTracks,   \* the Track objects parsed so far, in fetch order
    spRet,      \* the returned list: the objects by their index in spTracks
    pc,                     \* MyTidal.merge_playlist: the step it is at
    parent_folder_name,     \* its argument
    playlist_description,   \* its argument
    playlist_tracks,        \* its argument playlist.tracks, the source tracks
    folders,                \* Tidal: the names of the playlist folders
    folder_items,                  \* Tidal: the items of the folder the merge resolves
    playlists,              \* Tidal: the playlists, a handle is an index
    tidal_playlist,         \* the handle of the playlist merged into, 0 for None
    existing_tracks,        \* the parsed tracks fetched from that playlist
    offset,                 \* _fetch_with_limit: the offset of the next page
    track_index,                      \* the index in playlist_tracks of the track at hand
    found_tidal_track,      \* the candidate search_track returned
    result,                 \* AddedTracksResult
    ret,                    \* "pending", "None" (failure) or "result"
    calls,                  \* the writes and searches issued and the item listings that failed, in order
    start_tracks,           \* the raw tracks of the playlist merged into, at the start
    rtPc,       \* _retry_on_error: "idle", "call", "sleep" or "done"
    rtI,        \* its loop index i into backoff_intervals, from 0
    rtLog,      \* the invocations of func and the sleeps, in order
    rtRet,      \* what the wrapper returned or raised
    fwPc,       \* _fetch_with_limit: "idle", "fetch" or "done"
    fwListing,  \* the remote listing it reads
    fwOffset,   \* its offset
    fwRequests, \* the offsets requested, in order
    fwYielded,  \* the items the consumer received, in order
    rePc,       \* reorganize_playlist: "idle", "call" or "done"
    reDest,     \* the destination playlist: its track ids, in order
    reDesired,  \* the desired order: track ids
    reLog,      \* one entry per call: the order before, what it returned, the moves issued
    syPc,       \* _merge_spotify_playlists: the step it is at
    syI,        \* its loop index i over the tries to find the Spotify playlists
    sySources,  \* spotify_playlists: how many source playlists are merged
    report_no_update, \* its argument
    syIndex,    \* the index of the source playlist at hand, from 1
    ordered_tracks, \* the tracks collected for reorganize_playlist
    syLog,      \* the calls to MyTidal and the messages sent, in order
    boSent,     \* the commands sent to the bot that it has not fetched yet
    boQueue,    \* the updates the polling task fetched, not handled yet
    boSync,     \* the /sync handler: "idle", "call", "sleep" or "await"
    boI,        \* _retry_on_error in the /sync handler: its loop index i
    boCalls,    \* the remote calls the /sync handler has made
    boAnswered, \* the commands answered, in order
    noPc,       \* _normalize_artist_name: "idle", "call" or "done"
    noName,     \* the artist name it is given
    noOther,    \* a second name: the first one in another case, with other diacritics or with its fragments swapped
    noOut,      \* the fragments of noName
    noOtherOut, \* the fragments of noOther
    trPc,       \* one source track of the merge loop: "idle", "search", "add" or "done"
    trTrack,    \* the source track
    trSearched, \* what the search returned: None when it failed, else the candidates
    trFound,    \* found_tidal_track
    trAdds,     \* the add_by_isrc calls: the ISRC and what the call returned
    trResult,   \* AddedTracksResult
    sePc,       \* TelegramBot.send_message: "idle", "loop" or "done"
    lines_to_send, \* the lines still to send: the length of each one
    seSent,     \* the chunks handed to the Telegram API: the length of the text, and whether the call succeeded
    auPc,       \* a command handler of TelegramBot: "idle", "handle", "sync" or "done"
    auHandler,  \* the handler the update is dispatched to: "sync" or "list"
    update,     \* the update
    allowed_users, \* the configuration: the user ids allowed
    chat_id,    \* the configuration: the chat
    auLog       \* the callbacks invoked and the remote calls made, in order

eqVars == <<eqOp, eqA, eqB, eqOut>>

spVars == <<spPc, spOffset, spTracks, spRet>>

mergeVars ==
    <<pc, parent_folder_name, playlist_description, playlist_tracks,
      folders, folder_items, playlists, tidal_playlist, existing_tracks, offset, track_index,
      found_tidal_track, result, ret, calls, start_tracks>>

rtVars == <<rtPc, rtI, rtLog, rtRet>>

fwVars == <<fwPc, fwListing, fwOffset, fwRequests, fwYielded>>

reVars == <<rePc, reDest, reDesired, reLog>>

syVars == <<syPc, syI, sySources, report_no_update, syIndex, ordered_tracks, syLog>>

boVars == <<boSent, boQueue, boSync, boI, boCalls, boAnswered>>

noVars == <<noPc, noName, noOther, noOut, noOtherOut>>

trVars == <<trPc, trTrack, trSearched, trFound, trAdds, trResult>>

seVars == <<sePc, lines_to_send, seSent>>

auVars == <<auPc, auHandler, update, allowed_users, chat_id, auLog>>

vars == <<eqVars, spVars, mergeVars, rtVars, fwVars, reVars, syVars, boVars, noVars, trVars, seVars, auVars>>

None == << >>

Some(v) == <<v>>

(***************************************************************************)
(* Bounds of the model.                                                    *)
(***************************************************************************)
MaxAlbumLen == 2

\* The most tracks one Spotify playlist holds, and the most items of a page.
MaxFetched == 3

MaxPage == 2

\* The most source tracks of a merge.
MaxSrc == 2

\* The most items of a remote listing read by _fetch_with_limit.
MaxListing == 130

\* The most tracks of a playlist that is reordered, and the most calls of
\* reorganize_playlist in a row.
MaxReTracks == 3

MaxReCalls == 2

\* The most source playlists merged into one destination playlist.
MaxSources == 2

\* The most commands sent to the bot, and the most remote calls of one
\* /sync.
MaxCommands == 3

MaxBotCalls == 2

\* The longest artist name normalized on its own.
MaxNameLen == 3

\* The most lines of a message, and the most chunks of one message handed
\* to the Telegram API.
MaxLines == 3

MaxSends == 5

(***************************************************************************)
(* Characters.                                                             *)
(***************************************************************************)
\* str.lower() / the case folding of re.IGNORECASE, one character.
LowerChar(c) ==
    CASE c = "A" -> "a"
      [] c = "B" -> "b"
      [] c = "E" -> "e"
      [] c = "G" -> "g"
      [] c = "U" -> "u"
      [] OTHER -> c

\* str.upper(), one character.
UpperChar(c) ==
    CASE c = "a" -> "A"
      [] c = "b" -> "B"
      [] c = "e" -> "E"
      [] c = "g" -> "G"
      [] c = "u" -> "U"
      [] OTHER -> c

Lower(s) == [i \in 1..Len(s) |-> LowerChar(s[i])]

Upper(s) == [i \in 1..Len(s) |-> UpperChar(s[i])]

IsSpace(c) == c = " "

\* str.strip(): leading and trailing whitespace removed.
RECURSIVE LStrip(_)
LStrip(s) == IF s # << >> /\ IsSpace(s[1]) THEN LStrip(Tail(s)) ELSE s

RECURSIVE RStrip(_)
RStrip(s) ==
    IF s # << >> /\ IsSpace(s[Len(s)]) THEN RStrip(SubSeq(s, 1, Len(s) - 1)) ELSE s

Strip(s) == RStrip(LStrip(s))

\* unicodedata.normalize("NFD", c).encode("ascii", "ignore").decode("ascii"):
\* a Latin letter with a diacritic decomposes to the letter and a combining
\* mark, and the mark is dropped; a character with no ASCII part is dropped.
AsciiChar(c) ==
    CASE c = "e-acute" -> <<"e">>
      [] c = "cyr-ya" -> << >>
      [] OTHER -> <<c>>

RECURSIVE NfdAscii(_)
NfdAscii(s) == IF s = << >> THEN << >> ELSE AsciiChar(s[1]) \o NfdAscii(Tail(s))

Contains(s, c) == \E i \in 1..Len(s) : s[i] = c

\* str.split(sep) for a one-character separator: the set of the fragments.
RECURSIVE SplitFrom(_, _, _)
SplitFrom(s, sep, cur) ==
    IF s = << >> THEN {cur}
    ELSE IF s[1] = sep THEN {cur} \cup SplitFrom(Tail(s), sep, << >>)
    ELSE SplitFrom(Tail(s), sep, Append(cur, s[1]))

Split(s, sep) == SplitFrom(s, sep, << >>)

_normalize_artist_name(name) ==
    LET lower == NfdAscii(Lower(Strip(name)))
        part(sep) == IF Contains(lower, sep) THEN Split(lower, sep) ELSE {lower}
    IN  part("&") \cup part(",")

\* The union of the normalized fragments of every artist of a track.
ArtistsLower(artists) == UNION {_normalize_artist_name(a) : a \in artists}

(***************************************************************************)
(* re.escape and re.match(pattern, string, re.IGNORECASE).                 *)
(***************************************************************************)
ReSpecial == {".", "&", " ", "\\"}

RECURSIVE ReEscape(_)
ReEscape(s) ==
    IF s = << >> THEN << >>
    ELSE (IF s[1] \in ReSpecial THEN <<"\\", s[1]>> ELSE <<s[1]>>) \o ReEscape(Tail(s))

\* The pattern matches a prefix of the string: "\" and a character match
\* that character, an unescaped "." matches any character, any other
\* character matches itself; letters are compared ignoring case.
RECURSIVE ReMatch(_, _)
ReMatch(p, s) ==
    IF p = << >> THEN TRUE
    ELSE IF p[1] = "\\"
    THEN /\ Len(p) >= 2
         /\ s # << >>
         /\ LowerChar(p[2]) = LowerChar(s[1])
         /\ ReMatch(SubSeq(p, 3, Len(p)), Tail(s))
    ELSE IF p[1] = "."
    THEN s # << >> /\ ReMatch(Tail(p), Tail(s))
    ELSE /\ s # << >>
         /\ LowerChar(p[1]) = LowerChar(s[1])
         /\ ReMatch(Tail(p), Tail(s))

(***************************************************************************)
(* Track.__eq__                                                            *)
(***************************************************************************)
ToleranceMs == 2000

Abs(x) == IF x < 0 THEN -x ELSE x

\* Mutant: the album name is used as a pattern without re.escape.
AlbumMatch_NoEscape(x, y) == ReMatch(x.name, y.name)

AlbumMatch(x, y) == ReMatch(ReEscape(x.name), y.name)

\* Mutant: the duration is checked before the ISRC.
TrackEq_DurationFirst(self, other) ==
    IF Abs(self.duration - other.duration) > ToleranceMs THEN FALSE
    ELSE IF self.isrc = other.isrc THEN TRUE
    ELSE IF ArtistsLower(self.artists) \cap ArtistsLower(other.artists) = {} THEN FALSE
    ELSE IF self.album = None \/ other.album = None THEN TRUE
    ELSE AlbumMatch(self.album[1], other.album[1])
            \/ AlbumMatch(other.album[1], self.album[1])

\* Mutant: the durations are compared in whole seconds (timedelta.seconds).
TrackEq_WholeSeconds(self, other) ==
    IF self.isrc = other.isrc THEN TRUE
    ELSE IF Abs(self.duration - other.duration) \div 1000 > ToleranceMs \div 1000 THEN FALSE
    ELSE IF ArtistsLower(self.artists) \cap ArtistsLower(other.artists) = {} THEN FALSE
    ELSE IF self.album = None \/ other.album = None THEN TRUE
    ELSE AlbumMatch(self.album[1], other.album[1])
            \/ AlbumMatch(other.album[1], self.album[1])

\* Mutant: matching album names are accepted before the artists are compared.
TrackEq_AlbumFirst(self, other) ==
    IF self.isrc = other.isrc THEN TRUE
    ELSE IF Abs(self.duration - other.duration) > ToleranceMs THEN FALSE
    ELSE IF /\ self.album # None
            /\ other.album # None
            /\ \/ AlbumMatch(self.album[1], other.album[1])
               \/ AlbumMatch(other.album[1], self.album[1])
         THEN TRUE
    ELSE IF ArtistsLower(self.artists) \cap ArtistsLower(other.artists) = {} THEN FALSE
    ELSE self.album = None \/ other.album = None

\* Mutant: both albums must be missing for the album check to be skipped.
TrackEq_BothAlbumsMissing(self, other) ==
    IF self.isrc = other.isrc THEN TRUE
    ELSE IF Abs(self.duration - other.duration) > ToleranceMs THEN FALSE
    ELSE IF ArtistsLower(self.artists) \cap ArtistsLower(other.artists) = {} THEN FALSE
    ELSE IF self.album = None /\ other.album = None THEN TRUE
    ELSE IF self.album = None \/ other.album = None THEN FALSE
    ELSE AlbumMatch(self.album[1], other.album[1])
            \/ AlbumMatch(other.album[1], self.album[1])

\* Mutant: the album names are matched in one direction only.
TrackEq_OneWay(self, other) ==
    IF self.isrc = other.isrc THEN TRUE
    ELSE IF Abs(self.duration - other.duration) > ToleranceMs THEN FALSE
    ELSE IF ArtistsLower(self.artists) \cap ArtistsLower(other.artists) = {} THEN FALSE
    ELSE IF self.album = None \/ other.album = None THEN TRUE
    ELSE AlbumMatch(self.album[1], other.album[1])

TrackEq(self, other) ==
    IF self.isrc = other.isrc THEN TRUE
    ELSE IF Abs(self.duration - other.duration) > ToleranceMs THEN FALSE
    ELSE IF ArtistsLower(self.artists) \cap ArtistsLower(other.artists) = {} THEN FALSE
    ELSE IF self.album = None \/ other.album = None THEN TRUE
    ELSE AlbumMatch(self.album[1], other.album[1])
            \/ AlbumMatch(other.album[1], self.album[1])

(***************************************************************************)
(* _parse_album and _parse_track of the two catalogs.  A raw track is what *)
(* the remote API returned: every field is optional.                       *)
(***************************************************************************)
\* tidal.py _parse_album: no album without a name.
TidalParseAlbum(tidal_album) ==
    IF tidal_album.name = None THEN None
    ELSE Some([name |-> tidal_album.name[1]])

\* tidal.py _parse_track: the ISRC is taken as the API returned it and the
\* duration is in whole seconds.
TidalParseTrack(tidal_track) ==
    IF tidal_track.name = None THEN None
    ELSE IF tidal_track.isrc = None THEN None
    ELSE IF tidal_track.id = None THEN None
    ELSE IF tidal_track.duration = None THEN None
    ELSE Some([id |-> tidal_track.id[1],
               isrc |-> tidal_track.isrc[1],
               duration |-> tidal_track.duration[1] * 1000,
               artists |-> IF tidal_track.artists = None THEN {}
                           ELSE {a[1] : a \in {x \in tidal_track.artists[1] : x # None}},
               album |-> IF tidal_track.album # None
                         THEN TidalParseAlbum(tidal_track.album[1])
                         ELSE None])

\* spotify.py _parse_album: no album without a name or a track count.
SpotifyParseAlbum(spotify_album) ==
    IF spotify_album.name = None THEN None
    ELSE IF spotify_album.total_tracks = None THEN None
    ELSE Some([name |-> spotify_album.name[1]])

\* spotify.py _parse_track: the ISRC is upper-cased, a missing id becomes -1
\* and the duration is in milliseconds.
SpotifyParseTrack(spotify_track) ==
    IF spotify_track.name = None THEN None
    ELSE IF spotify_track.isrc = None THEN None
    ELSE IF spotify_track.duration_ms = None THEN None
    ELSE Some([id |-> IF spotify_track.id # None THEN spotify_track.id[1] ELSE -1,
               isrc |-> Upper(spotify_track.isrc[1]),
               duration |-> spotify_track.duration_ms[1],
               artists |-> IF spotify_track.artists = None THEN {}
                           ELSE {a[1] : a \in {x \in spotify_track.artists[1] : x # None}},
               album |-> IF spotify_track.album # None
                         THEN SpotifyParseAlbum(spotify_track.album[1])
                         ELSE None])

(***************************************************************************)
(* The tracks and raw tracks the comparisons are drawn from.               *)
(***************************************************************************)
RECURSIVE StringsUpTo(_, _)
StringsUpTo(chars, n) ==
    IF n = 0 THEN {<< >>}
    ELSE LET shorter == StringsUpTo(chars, n - 1)
         IN  shorter \cup {Append(s, c) : s \in shorter, c \in chars}

AlbumChars == {"a", "A", "."}

EqAlbums == {None} \cup {Some([name |-> n]) : n \in StringsUpTo(AlbumChars, MaxAlbumLen)}

EqIsrcs == {<<"U", "1">>, <<"G", "2">>}

EqDurations == {0, 2000, 2001}

EqArtistSets == {{}, {<<"e">>}, {<<"E", "&", "b">>}, {<<"cyr-ya">>}}

EqTracks ==
    [id : {1}, isrc : EqIsrcs, duration : EqDurations,
     artists : EqArtistSets, album : EqAlbums]

RawArtistLists == {None, Some({Some(<<"e">>), None}), Some({Some(<<"b">>)})}

RawSpotifyTracks ==
    [name : {None, Some("n")},
     id : {None, Some(1)},
     isrc : {None, Some(<<"u", "1">>), Some(<<"U", "1">>)},
     duration_ms : {None, Some(0), Some(2001)},
     artists : RawArtistLists,
     album : {None, Some([name |-> Some(<<"a">>), total_tracks |-> None]),
              Some([name |-> Some(<<"a">>), total_tracks |-> Some(1)])}]

RawTidalTracks ==
    [name : {None, Some("n")},
     id : {None, Some(2)},
     isrc : {None, Some(<<"u", "1">>), Some(<<"U", "1">>)},
     duration : {None, Some(0), Some(3)},
     artists : RawArtistLists,
     album : {None, Some([name |-> None]), Some([name |-> Some(<<".">>)])}]

(***************************************************************************)
(* The comparisons.                                                        *)
(***************************************************************************)
Compared(a, b) == [ab |-> TrackEq(a, b), ba |-> TrackEq(b, a), aa |-> TrackEq(a, a)]

EqIdle ==
    /\ eqOp = "none"
    /\ eqA = None
    /\ eqB = None
    /\ eqOut = None

SpIdle ==
    /\ spPc = "idle"
    /\ spOffset = 0
    /\ spTracks = << >>
    /\ spRet = None

EmptyResult == [added |-> << >>, skipped |-> << >>, not_found |-> << >>, add_error |-> << >>]

MergeIdle ==
    /\ pc = "idle"
    /\ parent_folder_name = None
    /\ playlist_description = None
    /\ playlist_tracks = << >>
    /\ folders = {}
    /\ folder_items = << >>
    /\ playlists = << >>
    /\ tidal_playlist = 0
    /\ existing_tracks = << >>
    /\ offset = 0
    /\ track_index = 1
    /\ found_tidal_track = None
    /\ result = EmptyResult
    /\ ret = "pending"
    /\ calls = << >>
    /\ start_tracks = << >>

RtIdle ==
    /\ rtPc = "idle"
    /\ rtI = 0
    /\ rtLog = << >>
    /\ rtRet = None

FwIdle ==
    /\ fwPc = "idle"
    /\ fwListing = << >>
    /\ fwOffset = 0
    /\ fwRequests = << >>
    /\ fwYielded = << >>

ReIdle ==
    /\ rePc = "idle"
    /\ reDest = << >>
    /\ reDesired = << >>
    /\ reLog = << >>

SyIdle ==
    /\ syPc = "idle"
    /\ syI = 0
    /\ sySources = 0
    /\ report_no_update = FALSE
    /\ syIndex = 1
    /\ ordered_tracks = << >>
    /\ syLog = << >>

BoIdle ==
    /\ boSent = << >>
    /\ boQueue = << >>
    /\ boSync = "idle"
    /\ boI = 0
    /\ boCalls = 0
    /\ boAnswered = << >>

NoIdle ==
    /\ noPc = "idle"
    /\ noName = << >>
    /\ noOther = << >>
    /\ noOut = {}
    /\ noOtherOut = {}

TrIdle ==
    /\ trPc = "idle"
    /\ trTrack = None
    /\ trSearched = None
    /\ trFound = None
    /\ trAdds = << >>
    /\ trResult = EmptyResult

SeIdle ==
    /\ sePc = "idle"
    /\ lines_to_send = << >>
    /\ seSent = << >>

AuIdle ==
    /\ auPc = "idle"
    /\ auHandler = "list"
    /\ update = [message |-> None]
    /\ allowed_users = {}
    /\ chat_id = 0
    /\ auLog = << >>

InitEq == EqIdle /\ SpIdle /\ MergeIdle /\ RtIdle /\ FwIdle /\ ReIdle /\ SyIdle /\ BoIdle /\ NoIdle /\ TrIdle /\ SeIdle /\ AuIdle

\* a == b for two tracks, whatever catalog they came from.
CompareTracks ==
    /\ eqOp = "none"
    /\ \E a \in EqTracks, b \in EqTracks :
        /\ eqOp' = "eq"
        /\ eqA' = a
        /\ eqB' = b
        /\ eqOut' = Compared(a, b)
    /\ UNCHANGED <<spVars, mergeVars, rtVars, fwVars, reVars, syVars, boVars, noVars, trVars, seVars, auVars>>

\* a == b for a track parsed from Spotify and a track parsed from Tidal.
CompareParsed ==
    /\ eqOp = "none"
    /\ \E s \in RawSpotifyTracks, t \in RawTidalTracks :
        /\ SpotifyParseTrack(s) # None
        /\ TidalParseTrack(t) # None
        /\ eqOp' = "parsed"
        /\ eqA' = SpotifyParseTrack(s)[1]
        /\ eqB' = TidalParseTrack(t)[1]
        /\ eqOut' = Compared(eqA', eqB')
    /\ UNCHANGED <<spVars, mergeVars, rtVars, fwVars, reVars, syVars, boVars, noVars, trVars, seVars, auVars>>

NextEq == CompareTracks \/ CompareParsed

SpecEq == InitEq /\ [][NextEq]_vars

(***************************************************************************)
(* MySpotify._get_tracks_from_playlist: the pages of a playlist are        *)
(* fetched and parsed, then duplicates are removed from the list.  A       *)
(* Python list holds objects: an object is named by its index in spTracks, *)
(* the order in which the tracks were parsed.                              *)
(***************************************************************************)
SpotifyLimit == 100

\* The first index i of list cur whose object equals object t (list.index).
FirstEqual(cur, t, objs) ==
    CHOOSE i \in 1..Len(cur) :
        /\ TrackEq(objs[cur[i]], objs[t])
        /\ \A j \in 1..(i - 1) : ~TrackEq(objs[cur[j]], objs[t])

\* tracks.remove(t): the first element equal to t is removed.  The element t
\* itself is in the list whenever the pass calls remove.
ListRemove(cur, t, objs) ==
    IF \E i \in 1..Len(cur) : TrackEq(objs[cur[i]], objs[t])
    THEN LET i == FirstEqual(cur, t, objs)
         IN  SubSeq(cur, 1, i - 1) \o SubSeq(cur, i + 1, Len(cur))
    ELSE cur

\* for t in found_tracks[1:]: tracks.remove(t)
RECURSIVE RemoveAll(_, _, _)
RemoveAll(cur, found, objs) ==
    IF found = << >> THEN cur
    ELSE RemoveAll(ListRemove(cur, Head(found), objs), Tail(found), objs)

\* Mutant: the pass ends after the first track that has duplicates.
RECURSIVE DedupFrom_StopAfterFirst(_, _, _)
DedupFrom_StopAfterFirst(cur, k, objs) ==
    IF k > Len(objs) THEN cur
    ELSE LET IsDup(t) == TrackEq(objs[t], objs[k])
             found_tracks == SelectSeq(cur, IsDup)
         IN  IF Len(found_tracks) > 1
             THEN RemoveAll(cur, Tail(found_tracks), objs)
             ELSE DedupFrom_StopAfterFirst(cur, k + 1, objs)

\* for track in list(tracks): ...  -- k runs over the copy of the list.
RECURSIVE DedupFrom(_, _, _)
DedupFrom(cur, k, objs) ==
    IF k > Len(objs) THEN cur
    ELSE LET IsDup(t) == TrackEq(objs[t], objs[k])
             found_tracks == SelectSeq(cur, IsDup)
         IN  DedupFrom(IF Len(found_tracks) > 1
                       THEN RemoveAll(cur, Tail(found_tracks), objs)
                       ELSE cur,
                       k + 1, objs)

\* The de-duplication pass over the fetched objects.
DedupPass(objs) == DedupFrom([i \in 1..Len(objs) |-> i], 1, objs)

\* The items a Spotify page may hold: tracks that are equal by ISRC (after
\* upper-casing), tracks that are equal by duration, artist and album, a
\* track that cannot be parsed and an item that is no track.
SpRaw(id, isrc, ms, artist, album) ==
    [is_track |-> TRUE,
     track |-> [name |-> Some("n"), id |-> Some(id), isrc |-> isrc,
                duration_ms |-> Some(ms), artists |-> Some({Some(artist)}),
                album |-> album]]

SpAlbum(n) == Some([name |-> Some(n), total_tracks |-> Some(1)])

SpItems ==
    {SpRaw(1, Some(<<"U", "1">>), 0, <<"e">>, None),
     SpRaw(2, Some(<<"u", "1">>), 2001, <<"e">>, SpAlbum(<<"a">>)),
     SpRaw(3, Some(<<"G", "2">>), 0, <<"E", "&", "b">>, SpAlbum(<<"a">>)),
     SpRaw(4, Some(<<"G", "3">>), 0, <<"b">>, SpAlbum(<<".">>)),
     SpRaw(5, None, 0, <<"e">>, None),
     [is_track |-> FALSE, track |-> None]}

RECURSIVE SeqsUpTo(_, _)
SeqsUpTo(S, n) ==
    IF n = 0 THEN {<< >>}
    ELSE LET shorter == SeqsUpTo(S, n - 1)
         IN  shorter \cup {Append(q, x) : q \in shorter, x \in S}

\* The tracks of one page, parsed, in page order.
RECURSIVE ParsePage(_)
ParsePage(items) ==
    IF items = << >> THEN << >>
    ELSE (IF Head(items).is_track
          THEN SpotifyParseTrack(Head(items).track)
          ELSE None) \o ParsePage(Tail(items))

InitSp ==
    /\ AuIdle
    /\ SeIdle
    /\ TrIdle
    /\ NoIdle
    /\ BoIdle
    /\ SyIdle
    /\ ReIdle
    /\ EqIdle
    /\ MergeIdle
    /\ RtIdle
    /\ FwIdle
    /\ spPc = "start"
    /\ spOffset = 0
    /\ spTracks = << >>
    /\ spRet = None

\* A playlist without an id, or no Spotify client: the empty list.
GetTracksNoPlaylist ==
    /\ spPc = "start"
    /\ spPc' = "failed"
    /\ spRet' = Some(<< >>)
    /\ UNCHANGED <<spOffset, spTracks>>
    /\ UNCHANGED <<eqVars, mergeVars, rtVars, fwVars, reVars, syVars, boVars, noVars, trVars, seVars, auVars>>

GetTracksStart ==
    /\ spPc = "start"
    /\ spPc' = "fetch"
    /\ UNCHANGED <<spOffset, spTracks, spRet>>
    /\ UNCHANGED <<eqVars, mergeVars, rtVars, fwVars, reVars, syVars, boVars, noVars, trVars, seVars, auVars>>

\* playlist_items raises SpotifyException: the empty list is returned.
FetchPageError ==
    /\ spPc = "fetch"
    /\ spPc' = "failed"
    /\ spRet' = Some(<< >>)
    /\ UNCHANGED <<spOffset, spTracks>>
    /\ UNCHANGED <<eqVars, mergeVars, rtVars, fwVars, reVars, syVars, boVars, noVars, trVars, seVars, auVars>>

\* The response does not validate: the loop ends with the tracks so far.
FetchPageInvalid ==
    /\ spPc = "fetch"
    /\ spPc' = "returned"
    /\ spRet' = Some(DedupPass(spTracks))
    /\ UNCHANGED <<spOffset, spTracks>>
    /\ UNCHANGED <<eqVars, mergeVars, rtVars, fwVars, reVars, syVars, boVars, noVars, trVars, seVars, auVars>>

\* A page with a next page: its tracks are parsed and appended.
FetchPageMore ==
    /\ spPc = "fetch"
    /\ \E items \in SeqsUpTo(SpItems, MaxPage) :
        /\ Len(spTracks) + Len(ParsePage(items)) <= MaxFetched
        /\ spTracks' = spTracks \o ParsePage(items)
    /\ spOffset' = spOffset + SpotifyLimit
    /\ spOffset' <= MaxFetched * SpotifyLimit
    /\ UNCHANGED <<spPc, spRet>>
    /\ UNCHANGED <<eqVars, mergeVars, rtVars, fwVars, reVars, syVars, boVars, noVars, trVars, seVars, auVars>>

\* The last page: its tracks are appended, duplicates are removed and the
\* list is returned.
FetchPageLast ==
    /\ spPc = "fetch"
    /\ \E items \in SeqsUpTo(SpItems, MaxPage) :
        /\ Len(spTracks) + Len(ParsePage(items)) <= MaxFetched
        /\ spTracks' = spTracks \o ParsePage(items)
    /\ spPc' = "returned"
    /\ spRet' = Some(DedupPass(spTracks'))
    /\ UNCHANGED spOffset
    /\ UNCHANGED <<eqVars, mergeVars, rtVars, fwVars, reVars, syVars, boVars, noVars, trVars, seVars, auVars>>

NextSp ==
    \/ GetTracksNoPlaylist
    \/ GetTracksStart
    \/ FetchPageError
    \/ FetchPageInvalid
    \/ FetchPageMore
    \/ FetchPageLast

SpecSp == InitSp /\ [][NextSp]_vars

(***************************************************************************)
(* _retry_on_error: func is invoked until it returns, raises an error that *)
(* is not transient, or has failed transiently at each index of            *)
(* backoff_intervals.  An invocation and a sleep are one step each.        *)
(***************************************************************************)
backoff_intervals == <<1, 2, 5, 10, 30, 60>>

\* The errors the wrapper catches, and one it does not.
TransientErrors == {"TidalAPIError", "RequestException"}

OtherErrors == {"ValueError"}

\* What func may return; None and False are values like any other.
ReturnValues == {"value", "False", "None"}

Returns(v) == Some([kind |-> "return", value |-> v])

Raises(e) == Some([kind |-> "raise", value |-> e])

CallEvent(out, v) == [ev |-> "call", i |-> rtI, out |-> out, value |-> v]

SleepEvent(secs) == [ev |-> "sleep", i |-> rtI, out |-> "slept", value |-> secs]

InitRt ==
    /\ AuIdle
    /\ SeIdle
    /\ TrIdle
    /\ NoIdle
    /\ BoIdle
    /\ SyIdle
    /\ ReIdle
    /\ EqIdle
    /\ SpIdle
    /\ MergeIdle
    /\ FwIdle
    /\ rtPc = "call"
    /\ rtI = 0
    /\ rtLog = << >>
    /\ rtRet = None

\* return func(*args, **kwargs)
RetryReturn ==
    /\ rtPc = "call"
    /\ \E v \in ReturnValues :
        /\ rtLog' = Append(rtLog, CallEvent("return", v))
        /\ rtRet' = Returns(v)
    /\ rtPc' = "done"
    /\ UNCHANGED rtI
    /\ UNCHANGED <<eqVars, spVars, mergeVars, fwVars, reVars, syVars, boVars, noVars, trVars, seVars, auVars>>

\* Mutant: the transient error of the last attempt is raised to the caller.
RetryTransient_RaiseAtEnd ==
    /\ rtPc = "call"
    /\ \E e \in TransientErrors :
        /\ rtLog' = Append(rtLog, CallEvent(e, "None"))
        /\ IF rtI = Len(backoff_intervals) - 1
           THEN rtRet' = Raises(e) /\ rtPc' = "done"
           ELSE rtRet' = rtRet /\ rtPc' = "sleep"
    /\ UNCHANGED rtI
    /\ UNCHANGED <<eqVars, spVars, mergeVars, fwVars, reVars, syVars, boVars, noVars, trVars, seVars, auVars>>

\* func raises TidalAPIError or RequestException: at the last index the
\* wrapper returns None, else it goes on to sleep.
RetryTransient ==
    /\ rtPc = "call"
    /\ \E e \in TransientErrors :
        rtLog' = Append(rtLog, CallEvent(e, "None"))
    /\ IF rtI = Len(backoff_intervals) - 1
       THEN rtRet' = Returns("None") /\ rtPc' = "done"
       ELSE rtRet' = rtRet /\ rtPc' = "sleep"
    /\ UNCHANGED rtI
    /\ UNCHANGED <<eqVars, spVars, mergeVars, fwVars, reVars, syVars, boVars, noVars, trVars, seVars, auVars>>

\* Mutant: every error is caught and retried.
RetryRaise_Caught ==
    /\ rtPc = "call"
    /\ \E e \in OtherErrors :
        rtLog' = Append(rtLog, CallEvent(e, "None"))
    /\ IF rtI = Len(backoff_intervals) - 1
       THEN rtRet' = Returns("None") /\ rtPc' = "done"
       ELSE rtRet' = rtRet /\ rtPc' = "sleep"
    /\ UNCHANGED rtI
    /\ UNCHANGED <<eqVars, spVars, mergeVars, fwVars, reVars, syVars, boVars, noVars, trVars, seVars, auVars>>

\* func raises an error the except clause does not name: it leaves the wrapper.
RetryRaise ==
    /\ rtPc = "call"
    /\ \E e \in OtherErrors :
        /\ rtLog' = Append(rtLog, CallEvent(e, "None"))
        /\ rtRet' = Raises(e)
    /\ rtPc' = "done"
    /\ UNCHANGED rtI
    /\ UNCHANGED <<eqVars, spVars, mergeVars, fwVars, reVars, syVars, boVars, noVars, trVars, seVars, auVars>>

\* time.sleep(backoff), and the next iteration of the loop.
RetrySleep ==
    /\ rtPc = "sleep"
    /\ rtLog' = Append(rtLog, SleepEvent(backoff_intervals[rtI + 1]))
    /\ rtI' = rtI + 1
    /\ rtPc' = "call"
    /\ UNCHANGED rtRet
    /\ UNCHANGED <<eqVars, spVars, mergeVars, fwVars, reVars, syVars, boVars, noVars, trVars, seVars, auVars>>

NextRt ==
    \/ RetryReturn
    \/ RetryTransient
    \/ RetryRaise
    \/ RetrySleep

SpecRt == InitRt /\ [][NextRt]_vars

(***************************************************************************)
(* _fetch_with_limit: a remote listing is read in pages of Limit items.     *)
(***************************************************************************)
Limit == 50

Min(a, b) == IF a < b THEN a ELSE b

\* What the remote returns for offset and limit over the listing.
PageAt(listing, off) == SubSeq(listing, off + 1, Min(off + Limit, Len(listing)))

\* A remote listing of n items: the items are named by their position.
Listing(n) == [k \in 1..n |-> k]

Request(ok) == [offset |-> fwOffset, ok |-> ok]

InitFw ==
    /\ AuIdle
    /\ SeIdle
    /\ TrIdle
    /\ NoIdle
    /\ BoIdle
    /\ SyIdle
    /\ ReIdle
    /\ EqIdle
    /\ SpIdle
    /\ MergeIdle
    /\ RtIdle
    /\ fwPc = "fetch"
    /\ fwListing \in {Listing(n) : n \in 0..MaxListing}
    /\ fwOffset = 0
    /\ fwRequests = << >>
    /\ fwYielded = << >>

\* Mutant: a page that cannot be fetched is left out and the next one is
\* requested, as long as the listing goes on.
FetchFailed_Skip ==
    /\ fwPc = "fetch"
    /\ fwRequests' = Append(fwRequests, Request(FALSE))
    /\ IF fwOffset + Limit <= Len(fwListing)
       THEN fwPc' = fwPc /\ fwOffset' = fwOffset + Limit
       ELSE fwPc' = "done" /\ fwOffset' = fwOffset
    /\ UNCHANGED <<fwListing, fwYielded>>
    /\ UNCHANGED <<eqVars, spVars, mergeVars, rtVars, reVars, syVars, boVars, noVars, trVars, seVars, auVars>>

\* items is None, every attempt of _retry_on_error having failed: break.
FetchFailed ==
    /\ fwPc = "fetch"
    /\ fwRequests' = Append(fwRequests, Request(FALSE))
    /\ fwPc' = "done"
    /\ UNCHANGED <<fwListing, fwOffset, fwYielded>>
    /\ UNCHANGED <<eqVars, spVars, mergeVars, rtVars, reVars, syVars, boVars, noVars, trVars, seVars, auVars>>

\* Mutant: the listing ends at the first empty page only.
FetchedPage_StopOnEmpty ==
    /\ fwPc = "fetch"
    /\ LET page == PageAt(fwListing, fwOffset)
       IN  /\ fwRequests' = Append(fwRequests, Request(TRUE))
           /\ fwYielded' = fwYielded \o page
           /\ IF Len(page) = 0
              THEN fwPc' = "done" /\ fwOffset' = fwOffset
              ELSE fwPc' = fwPc /\ fwOffset' = fwOffset + Limit
    /\ UNCHANGED fwListing
    /\ UNCHANGED <<eqVars, spVars, mergeVars, rtVars, reVars, syVars, boVars, noVars, trVars, seVars, auVars>>

\* A page is returned: its items are yielded; a page shorter than limit
\* ends the listing, else the offset advances by limit.
FetchedPage ==
    /\ fwPc = "fetch"
    /\ LET page == PageAt(fwListing, fwOffset)
       IN  /\ fwRequests' = Append(fwRequests, Request(TRUE))
           /\ fwYielded' = fwYielded \o page
           /\ IF Len(page) < Limit
              THEN fwPc' = "done" /\ fwOffset' = fwOffset
              ELSE fwPc' = fwPc /\ fwOffset' = fwOffset + Limit
    /\ UNCHANGED fwListing
    /\ UNCHANGED <<eqVars, spVars, mergeVars, rtVars, reVars, syVars, boVars, noVars, trVars, seVars, auVars>>

NextFw == FetchFailed \/ FetchedPage

SpecFw == InitFw /\ [][NextFw]_vars

(***************************************************************************)
(* The Tidal account and catalog.                                          *)
(***************************************************************************)
PlaylistName == "P"

FolderName == "F"

\* The description user.create_playlist is given: f'Playlist "{name}"'.
CreatedDescription == "Playlist P"

TidalRaw(id, isrc, seconds, artist, album) ==
    [name |-> Some("n"), id |-> Some(id), isrc |-> isrc, duration |-> Some(seconds),
     artists |-> Some({Some(artist)}), album |-> album]

TidalAlbum(n) == Some([name |-> Some(n)])

\* The catalog: one track per ISRC, and a track without an ISRC.
CatalogU1 == TidalRaw(11, Some(<<"U", "1">>), 0, <<"e">>, TidalAlbum(<<"a">>))

CatalogG2 == TidalRaw(12, Some(<<"G", "2">>), 0, <<"E", "&", "b">>, TidalAlbum(<<".">>))

CatalogNoIsrc == TidalRaw(13, None, 0, <<"e">>, None)

Catalog == {CatalogU1, CatalogG2, CatalogNoIsrc}

\* What a search may return: catalog tracks in any order, none twice.
SearchResults ==
    {c \in SeqsUpTo(Catalog, Cardinality(Catalog)) :
        \A j \in 1..Len(c) : \A k \in 1..Len(c) : c[j] = c[k] => j = k}

\* The catalog's track with this ISRC, which add_by_isrc appends.
CatalogByIsrc(isrc) == CHOOSE t \in Catalog : t.isrc = Some(isrc)

Digits == <<"0", "1", "2", "3", "4", "5", "6", "7", "8", "9">>

\* n other tracks that fill the pages of a playlist, each with its own ISRC.
FillerTrack(k) ==
    TidalRaw(100 + k, Some(<<"F", Digits[(k \div 10) + 1], Digits[(k % 10) + 1]>>),
             600, <<"cyr-ya">>, None)

FillerTracks(n) == [k \in 1..n |-> FillerTrack(k)]

\* n other playlists that fill the pages of a folder.
OtherItems(n) == [k \in 1..n |-> [kind |-> "playlist", name |-> "Q", id |-> 0]]

(***************************************************************************)
(* The source tracks, as spotify.py parsed them.                           *)
(***************************************************************************)
SrcU1 == [id |-> 1, isrc |-> <<"U", "1">>, duration |-> 1000, artists |-> {<<"e">>},
          album |-> Some([name |-> <<"a">>])]

\* A track whose ISRC the catalog does not have; it equals CatalogG2 by
\* duration, artist and album.
SrcX7 == [id |-> 3, isrc |-> <<"X", "7">>, duration |-> 0, artists |-> {<<"b">>},
          album |-> Some([name |-> <<".">>])]

SrcTracks == {SrcU1, SrcX7}

(***************************************************************************)
(* The states a merge starts from.                                         *)
(***************************************************************************)
\* The playlist holds no, one or two pages of tracks; its last track may be
\* one a source track equals, or one that cannot be parsed.
DestTrackLists ==
    {FillerTracks(n) \o tail :
        n \in {0, Limit}, tail \in {<< >>, <<CatalogU1>>, <<CatalogNoIsrc>>}}

\* The playlist is as a merge leaves it, or as Tidal creates it.
DestPlaylists ==
    {[name |-> PlaylistName, description |-> c.description, public |-> c.public,
      tracks |-> t] :
        c \in {[description |-> "d", public |-> TRUE],
               [description |-> CreatedDescription, public |-> FALSE]},
        t \in DestTrackLists}

TargetItem == [kind |-> "playlist", name |-> PlaylistName, id |-> 1]

\* A folder (not a playlist) that has the playlist's name.
NamesakeFolder == [kind |-> "folder", name |-> PlaylistName, id |-> 0]

\* The playlists tried behind a full first page of folder items.
SecondPagePlaylists ==
    {p \in DestPlaylists : p.tracks \in {<<CatalogU1>>, FillerTracks(Limit) \o <<CatalogU1>>}}

\* The account: the folder does not exist; or it holds no playlist of the
\* name; or it holds one, on the first or on the second page of its folder_items.
Accounts(parent) ==
    (IF parent = None THEN {}
     ELSE {[folders |-> {}, items |-> << >>, playlists |-> << >>]})
    \cup
    {[folders |-> IF parent = None THEN {} ELSE {FolderName},
      items |-> its, playlists |-> << >>] :
        its \in {<<NamesakeFolder>>, OtherItems(Limit)}}
    \cup
    {[folders |-> IF parent = None THEN {} ELSE {FolderName},
      items |-> <<TargetItem>>, playlists |-> <<p>>] : p \in DestPlaylists}
    \cup
    {[folders |-> IF parent = None THEN {} ELSE {FolderName},
      items |-> OtherItems(Limit) \o <<TargetItem>>, playlists |-> <<p>>] :
        p \in SecondPagePlaylists}

Init ==
    /\ AuIdle
    /\ SeIdle
    /\ TrIdle
    /\ NoIdle
    /\ BoIdle
    /\ SyIdle
    /\ ReIdle
    /\ EqIdle
    /\ SpIdle
    /\ RtIdle
    /\ FwIdle
    /\ pc = "start"
    /\ parent_folder_name \in {None, Some(FolderName)}
    /\ playlist_description \in {None, Some("d")}
    /\ playlist_tracks \in SeqsUpTo(SrcTracks, MaxSrc)
    /\ \E acc \in Accounts(parent_folder_name) :
        /\ folders = acc.folders
        /\ folder_items = acc.items
        /\ playlists = acc.playlists
        /\ start_tracks = IF acc.playlists = << >> THEN << >> ELSE acc.playlists[1].tracks
    /\ tidal_playlist = 0
    /\ existing_tracks = << >>
    /\ offset = 0
    /\ track_index = 1
    /\ found_tidal_track = None
    /\ result = EmptyResult
    /\ ret = "pending"
    /\ calls = << >>

(***************************************************************************)
(* MyTidal.merge_playlist.  A call made through _retry_on_error either     *)
(* returns what the remote returned or, every attempt having failed, None. *)
(* In each action the first disjunct of a remote call is its failure.      *)
(***************************************************************************)
Fail ==
    /\ pc' = "done"
    /\ ret' = "None"

\* session.user is no LoggedInUser, or the merge begins.
MergeStart ==
    /\ pc = "start"
    /\ \/ Fail
       \/ /\ pc' = IF parent_folder_name # None THEN "folders" ELSE "root"
          /\ ret' = ret
    /\ UNCHANGED <<parent_folder_name, playlist_description, playlist_tracks,
                   folders, folder_items, playlists, tidal_playlist, existing_tracks, offset,
                   track_index, found_tidal_track, result, calls, start_tracks>>
    /\ UNCHANGED <<eqVars, spVars, rtVars, fwVars, reVars, syVars, boVars, noVars, trVars, seVars, auVars>>

\* user.favorites.playlist_folders, and the search for the folder's name.
MergeFolders ==
    /\ pc = "folders"
    /\ \/ Fail
       \/ /\ pc' = IF parent_folder_name[1] \in folders THEN "items" ELSE "create_folder"
          /\ ret' = ret
    /\ UNCHANGED <<parent_folder_name, playlist_description, playlist_tracks,
                   folders, folder_items, playlists, tidal_playlist, existing_tracks, offset,
                   track_index, found_tidal_track, result, calls, start_tracks>>
    /\ UNCHANGED <<eqVars, spVars, rtVars, fwVars, reVars, syVars, boVars, noVars, trVars, seVars, auVars>>

\* user.create_folder
MergeCreateFolder ==
    /\ pc = "create_folder"
    /\ calls' = Append(calls, [op |-> "create_folder"])
    /\ \/ /\ Fail
          /\ UNCHANGED folders
       \/ /\ folders' = folders \cup {parent_folder_name[1]}
          /\ pc' = "items"
          /\ ret' = ret
    /\ UNCHANGED <<parent_folder_name, playlist_description, playlist_tracks,
                   folder_items, playlists, tidal_playlist, existing_tracks, offset,
                   track_index, found_tidal_track, result, start_tracks>>
    /\ UNCHANGED <<eqVars, spVars, rtVars, fwVars, reVars, syVars, boVars, noVars, trVars, seVars, auVars>>

\* session.folder(): the root folder
MergeRootFolder ==
    /\ pc = "root"
    /\ \/ Fail
       \/ /\ pc' = "items"
          /\ ret' = ret
    /\ UNCHANGED <<parent_folder_name, playlist_description, playlist_tracks,
                   folders, folder_items, playlists, tidal_playlist, existing_tracks, offset,
                   track_index, found_tidal_track, result, calls, start_tracks>>
    /\ UNCHANGED <<eqVars, spVars, rtVars, fwVars, reVars, syVars, boVars, noVars, trVars, seVars, auVars>>

IsTarget(p) == p.kind = "playlist" /\ p.name = PlaylistName

\* next(p for p in _fetch_with_limit(tidal_folder.items) if ...): one page of
\* the folder's folder_items.  A page that cannot be fetched ends the listing, and
\* so does a page shorter than Limit: the playlist is then taken as absent.
MergeFindPlaylist ==
    /\ pc = "items"
    /\ LET page == PageAt(folder_items, offset)
       IN  \/ /\ pc' = "create_playlist"
              /\ calls' = Append(calls, [op |-> "items_failed"])
              /\ UNCHANGED <<tidal_playlist, offset>>
           \/ /\ \E k \in 1..Len(page) : IsTarget(page[k])
              /\ LET k == CHOOSE k \in 1..Len(page) :
                            IsTarget(page[k]) /\ \A j \in 1..(k - 1) : ~IsTarget(page[j])
                 IN  tidal_playlist' = page[k].id
              /\ pc' = "tracks"
              /\ offset' = 0
              /\ UNCHANGED calls
           \/ /\ \A k \in 1..Len(page) : ~IsTarget(page[k])
              /\ Len(page) < Limit
              /\ pc' = "create_playlist"
              /\ UNCHANGED <<tidal_playlist, offset, calls>>
           \/ /\ \A k \in 1..Len(page) : ~IsTarget(page[k])
              /\ Len(page) >= Limit
              /\ offset' = offset + Limit
              /\ UNCHANGED <<pc, tidal_playlist, calls>>
    /\ UNCHANGED <<parent_folder_name, playlist_description, playlist_tracks,
                   folders, folder_items, playlists, existing_tracks,
                   track_index, found_tidal_track, result, ret, start_tracks>>
    /\ UNCHANGED <<eqVars, spVars, rtVars, fwVars, reVars, syVars, boVars, noVars, trVars, seVars, auVars>>

\* user.create_playlist: the new playlist is empty.
MergeCreatePlaylist ==
    /\ pc = "create_playlist"
    /\ calls' = Append(calls, [op |-> "create_playlist"])
    /\ \/ /\ Fail
          /\ UNCHANGED <<folder_items, playlists, tidal_playlist, start_tracks>>
       \/ /\ \E pub \in BOOLEAN :
                playlists' = Append(playlists,
                                    [name |-> PlaylistName,
                                     description |-> CreatedDescription,
                                     public |-> pub, tracks |-> << >>])
          /\ folder_items' = Append(folder_items, [kind |-> "playlist", name |-> PlaylistName,
                                     id |-> Len(playlists) + 1])
          /\ tidal_playlist' = Len(playlists) + 1
          /\ start_tracks' = << >>
          /\ pc' = "description"
          /\ ret' = ret
    /\ UNCHANGED <<parent_folder_name, playlist_description, playlist_tracks,
                   folders, existing_tracks, offset, track_index, found_tidal_track, result>>
    /\ UNCHANGED <<eqVars, spVars, rtVars, fwVars, reVars, syVars, boVars, noVars, trVars, seVars, auVars>>

\* The tracks of a page, parsed, in page order.
RECURSIVE ParseTidalPage(_)
ParseTidalPage(page) ==
    IF page = << >> THEN << >>
    ELSE TidalParseTrack(Head(page)) \o ParseTidalPage(Tail(page))

\* for tidal_track in _fetch_with_limit(tidal_playlist.tracks): one page of
\* the playlist's tracks.  A page that cannot be fetched ends the listing.
MergeFetchTracks ==
    /\ pc = "tracks"
    /\ LET page == PageAt(playlists[tidal_playlist].tracks, offset)
       IN  \/ /\ pc' = "description"
              /\ UNCHANGED <<existing_tracks, offset>>
           \/ /\ existing_tracks' = existing_tracks \o ParseTidalPage(page)
              /\ IF Len(page) < Limit
                 THEN pc' = "description" /\ UNCHANGED offset
                 ELSE pc' = pc /\ offset' = offset + Limit
    /\ UNCHANGED <<parent_folder_name, playlist_description, playlist_tracks,
                   folders, folder_items, playlists, tidal_playlist,
                   track_index, found_tidal_track, result, ret, calls, start_tracks>>
    /\ UNCHANGED <<eqVars, spVars, rtVars, fwVars, reVars, syVars, boVars, noVars, trVars, seVars, auVars>>

\* tidal_playlist.edit(description=...), when a description is given and differs.
MergeDescription ==
    /\ pc = "description"
    /\ \/ /\ \/ playlist_description = None
             \/ playlist_description = Some(playlists[tidal_playlist].description)
          /\ pc' = "public"
          /\ UNCHANGED <<playlists, ret, calls>>
       \/ /\ playlist_description # None
          /\ playlist_description # Some(playlists[tidal_playlist].description)
          /\ calls' = Append(calls, [op |-> "edit"])
          /\ \/ /\ Fail
                /\ UNCHANGED playlists
             \/ /\ playlists' = [playlists EXCEPT
                                    ![tidal_playlist].description = playlist_description[1]]
                /\ pc' = "public"
                /\ ret' = ret
    /\ UNCHANGED <<parent_folder_name, playlist_description, playlist_tracks,
                   folders, folder_items, tidal_playlist, existing_tracks, offset,
                   track_index, found_tidal_track, result, start_tracks>>
    /\ UNCHANGED <<eqVars, spVars, rtVars, fwVars, reVars, syVars, boVars, noVars, trVars, seVars, auVars>>

\* tidal_playlist.set_playlist_public(), when the playlist is not public.
MergePublic ==
    /\ pc = "public"
    /\ \/ /\ playlists[tidal_playlist].public
          /\ pc' = "loop"
          /\ UNCHANGED <<playlists, ret, calls>>
       \/ /\ ~playlists[tidal_playlist].public
          /\ calls' = Append(calls, [op |-> "set_public"])
          /\ \/ /\ Fail
                /\ UNCHANGED playlists
             \/ /\ playlists' = [playlists EXCEPT ![tidal_playlist].public = TRUE]
                /\ pc' = "loop"
                /\ ret' = ret
    /\ UNCHANGED <<parent_folder_name, playlist_description, playlist_tracks,
                   folders, folder_items, tidal_playlist, existing_tracks, offset,
                   track_index, found_tidal_track, result, start_tracks>>
    /\ UNCHANGED <<eqVars, spVars, rtVars, fwVars, reVars, syVars, boVars, noVars, trVars, seVars, auVars>>

\* The first element of list that equals track: next(t for t in list if t == track).
FirstEqualTo(list, track) ==
    list[CHOOSE k \in 1..Len(list) :
            /\ TrackEq(list[k], track)
            /\ \A j \in 1..(k - 1) : ~TrackEq(list[j], track)]

HasEqual(list, track) == \E k \in 1..Len(list) : TrackEq(list[k], track)

AppendTo(res, field, track) == [res EXCEPT ![field] = Append(@, track)]

\* AddedTracksResult.tracks, the derived sequence: added + skipped.
ResultTracks(res) == res.added \o res.skipped

\* Mutant: no "continue" after a track is skipped: it is searched as well.
MergeLoop_NoContinue ==
    /\ pc = "loop"
    /\ \/ /\ track_index > Len(playlist_tracks)
          /\ pc' = "done"
          /\ ret' = "result"
          /\ UNCHANGED <<track_index, result>>
       \/ /\ track_index <= Len(playlist_tracks)
          /\ HasEqual(existing_tracks, playlist_tracks[track_index])
          /\ result' = AppendTo(result, "skipped",
                                FirstEqualTo(existing_tracks, playlist_tracks[track_index]))
          /\ pc' = "search"
          /\ UNCHANGED <<track_index, ret>>
       \/ /\ track_index <= Len(playlist_tracks)
          /\ ~HasEqual(existing_tracks, playlist_tracks[track_index])
          /\ pc' = "search"
          /\ UNCHANGED <<track_index, result, ret>>
    /\ UNCHANGED <<parent_folder_name, playlist_description, playlist_tracks,
                   folders, folder_items, playlists, tidal_playlist, existing_tracks, offset,
                   found_tidal_track, calls, start_tracks>>
    /\ UNCHANGED <<eqVars, spVars, rtVars, fwVars, reVars, syVars, boVars, noVars, trVars, seVars, auVars>>

\* Mutant: a track is looked up in the playlist as it is now, the tracks
\* this merge added included, not in the tracks fetched before the loop.
MergeLoop_LiveTracks ==
    /\ pc = "loop"
    /\ LET live == ParseTidalPage(playlists[tidal_playlist].tracks)
       IN  \/ /\ track_index > Len(playlist_tracks)
              /\ pc' = "done"
              /\ ret' = "result"
              /\ UNCHANGED <<track_index, result>>
           \/ /\ track_index <= Len(playlist_tracks)
              /\ HasEqual(live, playlist_tracks[track_index])
              /\ result' = AppendTo(result, "skipped",
                                    FirstEqualTo(live, playlist_tracks[track_index]))
              /\ track_index' = track_index + 1
              /\ UNCHANGED <<pc, ret>>
           \/ /\ track_index <= Len(playlist_tracks)
              /\ ~HasEqual(live, playlist_tracks[track_index])
              /\ pc' = "search"
              /\ UNCHANGED <<track_index, result, ret>>
    /\ UNCHANGED <<parent_folder_name, playlist_description, playlist_tracks,
                   folders, folder_items, playlists, tidal_playlist, existing_tracks, offset,
                   found_tidal_track, calls, start_tracks>>
    /\ UNCHANGED <<eqVars, spVars, rtVars, fwVars, reVars, syVars, boVars, noVars, trVars, seVars, auVars>>

\* Mutant: the source track is recorded as skipped, not the existing one.
MergeLoop_SkipsSource ==
    /\ pc = "loop"
    /\ \/ /\ track_index > Len(playlist_tracks)
          /\ pc' = "done"
          /\ ret' = "result"
          /\ UNCHANGED <<track_index, result>>
       \/ /\ track_index <= Len(playlist_tracks)
          /\ HasEqual(existing_tracks, playlist_tracks[track_index])
          /\ result' = AppendTo(result, "skipped", playlist_tracks[track_index])
          /\ track_index' = track_index + 1
          /\ UNCHANGED <<pc, ret>>
       \/ /\ track_index <= Len(playlist_tracks)
          /\ ~HasEqual(existing_tracks, playlist_tracks[track_index])
          /\ pc' = "search"
          /\ UNCHANGED <<track_index, result, ret>>
    /\ UNCHANGED <<parent_folder_name, playlist_description, playlist_tracks,
                   folders, folder_items, playlists, tidal_playlist, existing_tracks, offset,
                   found_tidal_track, calls, start_tracks>>
    /\ UNCHANGED <<eqVars, spVars, rtVars, fwVars, reVars, syVars, boVars, noVars, trVars, seVars, auVars>>

\* for track_index, track in enumerate(playlist.tracks): the end of the loop, a track
\* that is in existing_tracks, or a track to search.
MergeLoop ==
    /\ pc = "loop"
    /\ \/ /\ track_index > Len(playlist_tracks)
          /\ pc' = "done"
          /\ ret' = "result"
          /\ UNCHANGED <<track_index, result>>
       \/ /\ track_index <= Len(playlist_tracks)
          /\ HasEqual(existing_tracks, playlist_tracks[track_index])
          /\ result' = AppendTo(result, "skipped",
                                FirstEqualTo(existing_tracks, playlist_tracks[track_index]))
          /\ track_index' = track_index + 1
          /\ UNCHANGED <<pc, ret>>
       \/ /\ track_index <= Len(playlist_tracks)
          /\ ~HasEqual(existing_tracks, playlist_tracks[track_index])
          /\ pc' = "search"
          /\ UNCHANGED <<track_index, result, ret>>
    /\ UNCHANGED <<parent_folder_name, playlist_description, playlist_tracks,
                   folders, folder_items, playlists, tidal_playlist, existing_tracks, offset,
                   found_tidal_track, calls, start_tracks>>
    /\ UNCHANGED <<eqVars, spVars, rtVars, fwVars, reVars, syVars, boVars, noVars, trVars, seVars, auVars>>

\* Mutant: the last candidate that parses and equals the track.
RECURSIVE FirstMatch_Last(_, _)
FirstMatch_Last(cands, track) ==
    IF cands = << >> THEN None
    ELSE LET found_track == TidalParseTrack(cands[Len(cands)])
         IN  IF found_track # None /\ TrackEq(found_track[1], track)
             THEN found_track
             ELSE FirstMatch_Last(SubSeq(cands, 1, Len(cands) - 1), track)

\* search_track: the first candidate that parses and equals the track.
RECURSIVE FirstMatch(_, _)
FirstMatch(cands, track) ==
    IF cands = << >> THEN None
    ELSE LET found_track == TidalParseTrack(Head(cands))
         IN  IF found_track # None /\ TrackEq(found_track[1], track)
             THEN found_track
             ELSE FirstMatch(Tail(cands), track)

\* Mutant: a search that fails aborts the merge.
MergeSearch_Fatal ==
    /\ pc = "search"
    /\ calls' = Append(calls, [op |-> "search", track |-> track_index])
    /\ \/ /\ Fail
          /\ UNCHANGED <<track_index, result, found_tidal_track>>
       \/ \E cands \in SearchResults :
             /\ ret' = ret
             /\ IF FirstMatch(cands, playlist_tracks[track_index]) = None
                THEN /\ result' = AppendTo(result, "not_found", playlist_tracks[track_index])
                     /\ track_index' = track_index + 1
                     /\ pc' = "loop"
                     /\ UNCHANGED found_tidal_track
                ELSE /\ found_tidal_track' = FirstMatch(cands, playlist_tracks[track_index])
                     /\ pc' = "add"
                     /\ UNCHANGED <<track_index, result>>
    /\ UNCHANGED <<parent_folder_name, playlist_description, playlist_tracks,
                   folders, folder_items, playlists, tidal_playlist, existing_tracks, offset,
                   start_tracks>>
    /\ UNCHANGED <<eqVars, spVars, rtVars, fwVars, reVars, syVars, boVars, noVars, trVars, seVars, auVars>>

\* self.search_track(track): the search fails, or returns candidates.
MergeSearch ==
    /\ pc = "search"
    /\ calls' = Append(calls, [op |-> "search", track |-> track_index])
    /\ \/ /\ result' = AppendTo(result, "not_found", playlist_tracks[track_index])
          /\ track_index' = track_index + 1
          /\ pc' = "loop"
          /\ UNCHANGED found_tidal_track
       \/ \E cands \in SearchResults :
             IF FirstMatch(cands, playlist_tracks[track_index]) = None
             THEN /\ result' = AppendTo(result, "not_found", playlist_tracks[track_index])
                  /\ track_index' = track_index + 1
                  /\ pc' = "loop"
                  /\ UNCHANGED found_tidal_track
             ELSE /\ found_tidal_track' = FirstMatch(cands, playlist_tracks[track_index])
                  /\ pc' = "add"
                  /\ UNCHANGED <<track_index, result>>
    /\ UNCHANGED <<parent_folder_name, playlist_description, playlist_tracks,
                   folders, folder_items, playlists, tidal_playlist, existing_tracks, offset,
                   ret, start_tracks>>
    /\ UNCHANGED <<eqVars, spVars, rtVars, fwVars, reVars, syVars, boVars, noVars, trVars, seVars, auVars>>

\* tidal_playlist.add_by_isrc(found_tidal_track.isrc): None or False is an
\* error, True has appended the catalog's track to the playlist.
MergeAdd ==
    /\ pc = "add"
    /\ calls' = Append(calls, [op |-> "add", playlist |-> tidal_playlist,
                               isrc |-> found_tidal_track[1].isrc])
    /\ \/ /\ result' = AppendTo(result, "add_error", found_tidal_track[1])
          /\ UNCHANGED playlists
       \/ /\ result' = AppendTo(result, "added", found_tidal_track[1])
          /\ playlists' = [playlists EXCEPT ![tidal_playlist].tracks =
                              Append(@, CatalogByIsrc(found_tidal_track[1].isrc))]
    /\ track_index' = track_index + 1
    /\ pc' = "loop"
    /\ found_tidal_track' = None
    /\ UNCHANGED <<parent_folder_name, playlist_description, playlist_tracks,
                   folders, folder_items, tidal_playlist, existing_tracks, offset,
                   ret, start_tracks>>
    /\ UNCHANGED <<eqVars, spVars, rtVars, fwVars, reVars, syVars, boVars, noVars, trVars, seVars, auVars>>

Next ==
    \/ MergeStart
    \/ MergeFolders
    \/ MergeCreateFolder
    \/ MergeRootFolder
    \/ MergeFindPlaylist
    \/ MergeCreatePlaylist
    \/ MergeFetchTracks
    \/ MergeDescription
    \/ MergePublic
    \/ MergeLoop
    \/ MergeSearch
    \/ MergeAdd

Spec == Init /\ [][Next]_vars

(***************************************************************************)
(* reorganize_playlist(playlist, *desired): the destination's order is    *)
(* compared with the desired order by track id; when they differ the       *)
(* tracks are moved so that the destination has the desired order.  The    *)
(* call is made again with the same desired order.                         *)
(***************************************************************************)
TrackIds == <<"A", "B", "C", "D">>

\* The orders of the first n track ids.
Orders(n) ==
    {o \in [1..n -> {TrackIds[k] : k \in 1..n}] :
        \A j \in 1..n : \A k \in 1..n : o[j] = o[k] => j = k}

InitRe ==
    /\ AuIdle
    /\ SeIdle
    /\ TrIdle
    /\ NoIdle
    /\ BoIdle
    /\ SyIdle
    /\ EqIdle
    /\ SpIdle
    /\ MergeIdle
    /\ RtIdle
    /\ FwIdle
    /\ rePc = "call"
    /\ \E n \in 0..MaxReTracks :
        /\ reDest \in Orders(n)
        /\ reDesired \in Orders(n)
    /\ reLog = << >>

ReEntry(out, moves) == [before |-> reDest, ret |-> out, moves |-> moves]

\* The orders match: unchanged, nothing is sent to the remote.
ReorganizeUnchanged ==
    /\ rePc = "call"
    /\ reDest = reDesired
    /\ reLog' = Append(reLog, ReEntry("unchanged", 0))
    /\ rePc' = "done"
    /\ UNCHANGED <<reDest, reDesired>>
    /\ UNCHANGED <<eqVars, spVars, mergeVars, rtVars, fwVars, syVars, boVars, noVars, trVars, seVars, auVars>>

\* Mutant: changed is reported, the destination is left as it was.
ReorganizeMoved_NoEffect ==
    /\ rePc = "call"
    /\ reDest # reDesired
    /\ reLog' = Append(reLog, ReEntry("changed", 1))
    /\ rePc' = "done"
    /\ UNCHANGED <<reDest, reDesired>>
    /\ UNCHANGED <<eqVars, spVars, mergeVars, rtVars, fwVars, syVars, boVars, noVars, trVars, seVars, auVars>>

\* The orders differ and the remote move succeeds: changed.
ReorganizeMoved ==
    /\ rePc = "call"
    /\ reDest # reDesired
    /\ reLog' = Append(reLog, ReEntry("changed", 1))
    /\ reDest' = reDesired
    /\ rePc' = "done"
    /\ UNCHANGED reDesired
    /\ UNCHANGED <<eqVars, spVars, mergeVars, rtVars, fwVars, syVars, boVars, noVars, trVars, seVars, auVars>>

\* The orders differ and the remote move fails: failure.
ReorganizeFailed ==
    /\ rePc = "call"
    /\ reDest # reDesired
    /\ reLog' = Append(reLog, ReEntry("failure", 1))
    /\ rePc' = "done"
    /\ UNCHANGED <<reDest, reDesired>>
    /\ UNCHANGED <<eqVars, spVars, mergeVars, rtVars, fwVars, syVars, boVars, noVars, trVars, seVars, auVars>>

\* The caller calls again with the same desired order.
ReorganizeAgain ==
    /\ rePc = "done"
    /\ Len(reLog) < MaxReCalls
    /\ rePc' = "call"
    /\ UNCHANGED <<reDest, reDesired, reLog>>
    /\ UNCHANGED <<eqVars, spVars, mergeVars, rtVars, fwVars, syVars, boVars, noVars, trVars, seVars, auVars>>

NextRe ==
    \/ ReorganizeUnchanged
    \/ ReorganizeMoved
    \/ ReorganizeFailed
    \/ ReorganizeAgain

SpecRe == InitRe /\ [][NextRe]_vars

(***************************************************************************)
(* _merge_spotify_playlists(spotify, tidal, bot, playlist_name, playlists, *)
(* report_no_update): one sync of the source playlists into one            *)
(* destination playlist.  The calls to MyTidal and to Spotify are inputs:  *)
(* each one fails or succeeds.                                             *)
(***************************************************************************)
max_tries == 3

\* What merge_playlists returns when it does not fail.
SyncResults ==
    {[added |-> a, skipped |-> s, not_found |-> n, add_error |-> << >>] :
        a \in {<< >>, <<"A">>}, s \in {<< >>, <<"B">>}, n \in {<< >>, <<"C">>}}

TidalCall(op, out) == [op |-> op, ret |-> out]

Message(text) == [op |-> "send_message", ret |-> text]

\* spotify.get_playlists and the lookup of every configured name in what it
\* returned: all of them are found, or one is missing.
SpotifyCall(found) == [op |-> "get_playlists", ret |-> found]

InitSync ==
    /\ AuIdle
    /\ SeIdle
    /\ TrIdle
    /\ NoIdle
    /\ BoIdle
    /\ EqIdle
    /\ SpIdle
    /\ MergeIdle
    /\ RtIdle
    /\ FwIdle
    /\ ReIdle
    /\ syPc = "find"
    /\ syI = 0
    /\ sySources \in 1..MaxSources
    /\ report_no_update \in BOOLEAN
    /\ syIndex = 1
    /\ ordered_tracks = << >>
    /\ syLog = << >>

\* Every configured Spotify playlist is found: leave the loop of tries.
SyncFound ==
    /\ syPc = "find"
    /\ syLog' = Append(syLog, SpotifyCall("all"))
    /\ syPc' = "create"
    /\ UNCHANGED <<syI, sySources, report_no_update, syIndex, ordered_tracks>>
    /\ UNCHANGED <<eqVars, spVars, mergeVars, rtVars, fwVars, reVars, boVars, noVars, trVars, seVars, auVars>>

\* Mutant: after the last try the loop is left and the sync goes on.
SyncNotFound_GoesOn ==
    /\ syPc = "find"
    /\ IF syI = max_tries - 1
          THEN /\ syLog' = syLog \o <<SpotifyCall("missing"), Message("not all found")>>
               /\ syPc' = "create"
               /\ UNCHANGED syI
          ELSE /\ syLog' = Append(syLog, SpotifyCall("missing"))
               /\ syI' = syI + 1
               /\ UNCHANGED syPc
    /\ UNCHANGED <<sySources, report_no_update, syIndex, ordered_tracks>>
    /\ UNCHANGED <<eqVars, spVars, mergeVars, rtVars, fwVars, reVars, boVars, noVars, trVars, seVars, auVars>>

\* Not all are found: give up on the last try, else sleep and try again.
SyncNotFound ==
    /\ syPc = "find"
    /\ IF syI = max_tries - 1
          THEN /\ syLog' = syLog \o <<SpotifyCall("missing"), Message("not all found")>>
               /\ syPc' = "done"
               /\ UNCHANGED syI
          ELSE /\ syLog' = Append(syLog, SpotifyCall("missing"))
               /\ syI' = syI + 1
               /\ UNCHANGED syPc
    /\ UNCHANGED <<sySources, report_no_update, syIndex, ordered_tracks>>
    /\ UNCHANGED <<eqVars, spVars, mergeVars, rtVars, fwVars, reVars, boVars, noVars, trVars, seVars, auVars>>

SyncCreateFailed ==
    /\ syPc = "create"
    /\ syLog' = syLog \o <<TidalCall("create_playlist", "None"), Message("failed to create")>>
    /\ syPc' = "done"
    /\ UNCHANGED <<syI, sySources, report_no_update, syIndex, ordered_tracks>>
    /\ UNCHANGED <<eqVars, spVars, mergeVars, rtVars, fwVars, reVars, boVars, noVars, trVars, seVars, auVars>>

SyncCreated ==
    /\ syPc = "create"
    /\ syLog' = Append(syLog, TidalCall("create_playlist", "playlist"))
    /\ ordered_tracks' = << >>
    /\ syPc' = "merge"
    /\ UNCHANGED <<syI, sySources, report_no_update, syIndex>>
    /\ UNCHANGED <<eqVars, spVars, mergeVars, rtVars, fwVars, reVars, boVars, noVars, trVars, seVars, auVars>>

\* merge_playlists returns None: a message, then the next source playlist.
SyncMergeFailed ==
    /\ syPc = "merge"
    /\ syIndex <= sySources
    /\ syLog' = syLog \o <<TidalCall("merge_playlists", "None"), Message("failed to add")>>
    /\ syIndex' = syIndex + 1
    /\ UNCHANGED <<syPc, syI, sySources, report_no_update, ordered_tracks>>
    /\ UNCHANGED <<eqVars, spVars, mergeVars, rtVars, fwVars, reVars, boVars, noVars, trVars, seVars, auVars>>

SyncMerged ==
    /\ syPc = "merge"
    /\ syIndex <= sySources
    /\ \E res \in SyncResults :
        /\ ordered_tracks' = ordered_tracks \o ResultTracks(res)
        /\ syLog' = syLog \o <<TidalCall("merge_playlists", "result")>>
                          \o (IF res.added # << >> THEN <<Message("synced")>> ELSE << >>)
    /\ syIndex' = syIndex + 1
    /\ UNCHANGED <<syPc, syI, sySources, report_no_update>>
    /\ UNCHANGED <<eqVars, spVars, mergeVars, rtVars, fwVars, reVars, boVars, noVars, trVars, seVars, auVars>>

\* The loop is exhausted (it has no break, its else clause runs), then
\* reorganize_playlist is called with the tracks collected.
SyncReorganize ==
    /\ syPc = "merge"
    /\ syIndex > sySources
    /\ \E out \in {"None", "True", "False"} :
        syLog' = syLog
                 \o (IF report_no_update THEN <<Message("no new tracks")>> ELSE << >>)
                 \o <<TidalCall("reorganize_playlist", out)>>
                 \o (CASE out = "None" -> <<Message("failed to reorganize")>>
                        [] out = "True" -> <<Message("reorganized")>>
                        [] OTHER -> << >>)
    /\ syPc' = "done"
    /\ UNCHANGED <<syI, sySources, report_no_update, syIndex, ordered_tracks>>
    /\ UNCHANGED <<eqVars, spVars, mergeVars, rtVars, fwVars, reVars, boVars, noVars, trVars, seVars, auVars>>

NextSync ==
    \/ SyncFound
    \/ SyncNotFound
    \/ SyncCreateFailed
    \/ SyncCreated
    \/ SyncMergeFailed
    \/ SyncMerged
    \/ SyncReorganize

SpecSync == InitSync /\ [][NextSync]_vars

(***************************************************************************)
(* The bot: one asyncio event loop, on one thread.  The polling task       *)
(* fetches the updates; the Application handles them one after the other,  *)
(* each handler awaited to its end.  The /sync handler awaits the whole    *)
(* sync; the calls to Tidal inside it are synchronous and go through       *)
(* _retry_on_error, whose time.sleep keeps the thread.                     *)
(***************************************************************************)
Commands == {"sync", "list"}

InitBot ==
    /\ AuIdle
    /\ SeIdle
    /\ TrIdle
    /\ NoIdle
    /\ EqIdle
    /\ SpIdle
    /\ MergeIdle
    /\ RtIdle
    /\ FwIdle
    /\ ReIdle
    /\ SyIdle
    /\ boSent = << >>
    /\ boQueue = << >>
    /\ boSync = "idle"
    /\ boI = 0
    /\ boCalls = 0
    /\ boAnswered = << >>

\* The thread runs the event loop: no coroutine is inside a synchronous
\* call.
LoopRuns == boSync \in {"idle", "await"}

\* A user sends a command.
BotSend ==
    /\ Len(boSent) + Len(boQueue) + Len(boAnswered) + (IF boSync = "idle" THEN 0 ELSE 1) < MaxCommands
    /\ \E c \in Commands : boSent' = Append(boSent, c)
    /\ UNCHANGED <<boQueue, boSync, boI, boCalls, boAnswered>>
    /\ UNCHANGED <<eqVars, spVars, mergeVars, rtVars, fwVars, reVars, syVars, noVars, trVars, seVars, auVars>>

\* The polling task accepts the updates.
BotPoll ==
    /\ LoopRuns
    /\ boSent # << >>
    /\ boQueue' = boQueue \o boSent
    /\ boSent' = << >>
    /\ UNCHANGED <<boSync, boI, boCalls, boAnswered>>
    /\ UNCHANGED <<eqVars, spVars, mergeVars, rtVars, fwVars, reVars, syVars, noVars, trVars, seVars, auVars>>

\* TelegramBot._list_command: answers with the list.
BotList ==
    /\ boSync = "idle"
    /\ boQueue # << >>
    /\ Head(boQueue) = "list"
    /\ boQueue' = Tail(boQueue)
    /\ boAnswered' = Append(boAnswered, "list")
    /\ UNCHANGED <<boSent, boSync, boI, boCalls>>
    /\ UNCHANGED <<eqVars, spVars, mergeVars, rtVars, fwVars, reVars, syVars, noVars, trVars, seVars, auVars>>

\* TelegramBot._sync_command: awaits the sync, which makes its first
\* remote call.
BotSync ==
    /\ boSync = "idle"
    /\ boQueue # << >>
    /\ Head(boQueue) = "sync"
    /\ boQueue' = Tail(boQueue)
    /\ boSync' = "call"
    /\ boI' = 0
    /\ boCalls' = 1
    /\ UNCHANGED <<boSent, boAnswered>>
    /\ UNCHANGED <<eqVars, spVars, mergeVars, rtVars, fwVars, reVars, syVars, noVars, trVars, seVars, auVars>>

\* The remote call returns: the sync goes on to an await (a message).
BotCallReturns ==
    /\ boSync = "call"
    /\ boSync' = "await"
    /\ UNCHANGED <<boSent, boQueue, boI, boCalls, boAnswered>>
    /\ UNCHANGED <<eqVars, spVars, mergeVars, rtVars, fwVars, reVars, syVars, noVars, trVars, seVars, auVars>>

\* The remote call raises a transient error: None after the last interval,
\* else time.sleep(backoff).
BotCallTransient ==
    /\ boSync = "call"
    /\ boSync' = IF boI = Len(backoff_intervals) - 1 THEN "await" ELSE "sleep"
    /\ UNCHANGED <<boSent, boQueue, boI, boCalls, boAnswered>>
    /\ UNCHANGED <<eqVars, spVars, mergeVars, rtVars, fwVars, reVars, syVars, noVars, trVars, seVars, auVars>>

\* time.sleep returns: the next attempt.
BotWake ==
    /\ boSync = "sleep"
    /\ boSync' = "call"
    /\ boI' = boI + 1
    /\ UNCHANGED <<boSent, boQueue, boCalls, boAnswered>>
    /\ UNCHANGED <<eqVars, spVars, mergeVars, rtVars, fwVars, reVars, syVars, noVars, trVars, seVars, auVars>>

\* After the await the sync makes its next remote call.
BotNextCall ==
    /\ boSync = "await"
    /\ boCalls < MaxBotCalls
    /\ boSync' = "call"
    /\ boI' = 0
    /\ boCalls' = boCalls + 1
    /\ UNCHANGED <<boSent, boQueue, boAnswered>>
    /\ UNCHANGED <<eqVars, spVars, mergeVars, rtVars, fwVars, reVars, syVars, noVars, trVars, seVars, auVars>>

\* After the await the sync ends, and with it the handler.
BotSyncEnds ==
    /\ boSync = "await"
    /\ boSync' = "idle"
    /\ boI' = 0
    /\ boCalls' = 0
    /\ boAnswered' = Append(boAnswered, "sync")
    /\ UNCHANGED <<boSent, boQueue>>
    /\ UNCHANGED <<eqVars, spVars, mergeVars, rtVars, fwVars, reVars, syVars, noVars, trVars, seVars, auVars>>

NextBot ==
    \/ BotSend
    \/ BotPoll
    \/ BotList
    \/ BotSync
    \/ BotCallReturns
    \/ BotCallTransient
    \/ BotWake
    \/ BotNextCall
    \/ BotSyncEnds

SpecBot == InitBot /\ [][NextBot]_vars

(***************************************************************************)
(* _normalize_artist_name applied to a name and to a second name that      *)
(* differs from it in letter case, in diacritics or in the order of the    *)
(* fragments around its first separator.                                   *)
(***************************************************************************)
NameChars == {"a", "B", "e", "e-acute", "&", ","}

Separators == {"&", ","}

\* The name with e and e-acute exchanged.
OtherDiacritics(s) ==
    [i \in 1..Len(s) |->
        CASE s[i] = "e" -> "e-acute"
          [] s[i] = "e-acute" -> "e"
          [] OTHER -> s[i]]

\* The name with what precedes and what follows its first separator
\* exchanged; the name itself when it has no separator.
SwapFragments(s) ==
    IF \E i \in 1..Len(s) : s[i] \in Separators
      THEN LET i == CHOOSE i \in 1..Len(s) :
                        /\ s[i] \in Separators
                        /\ \A j \in 1..(i - 1) : s[j] \notin Separators
           IN  SubSeq(s, i + 1, Len(s)) \o <<s[i]>> \o SubSeq(s, 1, i - 1)
      ELSE s

InitNorm ==
    /\ AuIdle
    /\ SeIdle
    /\ TrIdle
    /\ EqIdle
    /\ SpIdle
    /\ MergeIdle
    /\ RtIdle
    /\ FwIdle
    /\ ReIdle
    /\ SyIdle
    /\ BoIdle
    /\ noPc = "call"
    /\ noName \in StringsUpTo(NameChars, MaxNameLen)
    /\ noOther \in {Upper(noName), OtherDiacritics(noName), SwapFragments(noName)}
    /\ noOut = {}
    /\ noOtherOut = {}

NormalizeNames ==
    /\ noPc = "call"
    /\ noOut' = _normalize_artist_name(noName)
    /\ noOtherOut' = _normalize_artist_name(noOther)
    /\ noPc' = "done"
    /\ UNCHANGED <<noName, noOther>>
    /\ UNCHANGED <<eqVars, spVars, mergeVars, rtVars, fwVars, reVars, syVars, boVars, trVars, seVars, auVars>>

NextNorm == NormalizeNames

SpecNorm == InitNorm /\ [][NextNorm]_vars

(***************************************************************************)
(* One source track of the merge loop that no existing track equals:      *)
(* search_track, then add_by_isrc, with what the search returned kept.     *)
(***************************************************************************)
\* A track with the ISRC of CatalogU1 that equals CatalogG2 by duration,
\* artist and album as well.
SrcU1G2 == [id |-> 4, isrc |-> <<"U", "1">>, duration |-> 0, artists |-> {<<"b">>},
            album |-> Some([name |-> <<".">>])]

InitTrack ==
    /\ AuIdle
    /\ SeIdle
    /\ EqIdle
    /\ SpIdle
    /\ MergeIdle
    /\ RtIdle
    /\ FwIdle
    /\ ReIdle
    /\ SyIdle
    /\ BoIdle
    /\ NoIdle
    /\ trPc = "search"
    /\ trTrack \in {Some(t) : t \in SrcTracks \cup {SrcU1G2}}
    /\ trSearched = None
    /\ trFound = None
    /\ trAdds = << >>
    /\ trResult = EmptyResult

\* self._session.search fails on every attempt: search_track returns None.
TrackSearchFailed ==
    /\ trPc = "search"
    /\ trSearched' = None
    /\ trResult' = AppendTo(trResult, "not_found", trTrack[1])
    /\ trPc' = "done"
    /\ UNCHANGED <<trTrack, trFound, trAdds>>
    /\ UNCHANGED <<eqVars, spVars, mergeVars, rtVars, fwVars, reVars, syVars, boVars, noVars, seVars, auVars>>

\* The search returns candidates: the first match is found_tidal_track.
TrackSearched ==
    /\ trPc = "search"
    /\ \E cands \in SearchResults :
        /\ trSearched' = Some(cands)
        /\ IF FirstMatch(cands, trTrack[1]) = None
           THEN /\ trResult' = AppendTo(trResult, "not_found", trTrack[1])
                /\ trPc' = "done"
                /\ UNCHANGED trFound
           ELSE /\ trFound' = FirstMatch(cands, trTrack[1])
                /\ trPc' = "add"
                /\ UNCHANGED trResult
    /\ UNCHANGED <<trTrack, trAdds>>
    /\ UNCHANGED <<eqVars, spVars, mergeVars, rtVars, fwVars, reVars, syVars, boVars, noVars, seVars, auVars>>

\* _retry_on_error(add_by_isrc, isrc) returns None (the retries are
\* exhausted), False or True.
TrackAdd ==
    /\ trPc = "add"
    /\ \E added \in {"None", "False", "True"} :
        /\ trAdds' = Append(trAdds, [isrc |-> trFound[1].isrc, ret |-> added])
        /\ trResult' = AppendTo(trResult, IF added = "True" THEN "added" ELSE "add_error",
                                trFound[1])
    /\ trPc' = "done"
    /\ UNCHANGED <<trTrack, trSearched, trFound>>
    /\ UNCHANGED <<eqVars, spVars, mergeVars, rtVars, fwVars, reVars, syVars, boVars, noVars, seVars, auVars>>

NextTrack ==
    \/ TrackSearchFailed
    \/ TrackSearched
    \/ TrackAdd

SpecTrack == InitTrack /\ [][NextTrack]_vars

(***************************************************************************)
(* _fetch_with_limit with the attempts of _retry_on_error: each request    *)
(* returns the page or raises a transient error, and is retried after a    *)
(* sleep until the backoff intervals are used up.                          *)
(***************************************************************************)
Attempt(out) == [offset |-> fwOffset, i |-> rtI, out |-> out]

InitFetch ==
    /\ AuIdle
    /\ SeIdle
    /\ EqIdle
    /\ SpIdle
    /\ MergeIdle
    /\ ReIdle
    /\ SyIdle
    /\ BoIdle
    /\ NoIdle
    /\ TrIdle
    /\ rtPc = "call"
    /\ rtI = 0
    /\ rtLog = << >>
    /\ rtRet = None
    /\ fwPc = "fetch"
    /\ fwListing \in {Listing(n) : n \in 0..MaxListing}
    /\ fwOffset = 0
    /\ fwRequests = << >>
    /\ fwYielded = << >>

\* func returns the page: it is yielded; a page shorter than limit ends
\* the listing, else the offset advances and the next page is requested.
AttemptReturns ==
    /\ fwPc = "fetch"
    /\ rtPc = "call"
    /\ LET page == PageAt(fwListing, fwOffset)
       IN  /\ fwRequests' = Append(fwRequests, Attempt("returned"))
           /\ fwYielded' = fwYielded \o page
           /\ IF Len(page) < Limit
              THEN fwPc' = "done" /\ fwOffset' = fwOffset
              ELSE fwPc' = fwPc /\ fwOffset' = fwOffset + Limit
    /\ rtI' = 0
    /\ UNCHANGED <<fwListing, rtPc, rtLog, rtRet>>
    /\ UNCHANGED <<eqVars, spVars, mergeVars, reVars, syVars, boVars, noVars, trVars, seVars, auVars>>

\* Mutant: a page that failed on every attempt is left out and the next
\* one is requested, as long as the listing goes on.
AttemptRaises_SkipPage ==
    /\ fwPc = "fetch"
    /\ rtPc = "call"
    /\ fwRequests' = Append(fwRequests, Attempt("raised"))
    /\ IF rtI = Len(backoff_intervals) - 1
       THEN IF fwOffset + Limit <= Len(fwListing)
            THEN fwPc' = fwPc /\ rtPc' = rtPc /\ rtI' = 0 /\ fwOffset' = fwOffset + Limit
            ELSE fwPc' = "done" /\ rtPc' = rtPc /\ rtI' = rtI /\ fwOffset' = fwOffset
       ELSE fwPc' = fwPc /\ rtPc' = "sleep" /\ rtI' = rtI /\ fwOffset' = fwOffset
    /\ UNCHANGED <<fwListing, fwYielded, rtLog, rtRet>>
    /\ UNCHANGED <<eqVars, spVars, mergeVars, reVars, syVars, boVars, noVars, trVars, seVars, auVars>>

\* func raises a transient error: at the last index _retry_on_error
\* returns None and the listing ends, else it goes on to sleep.
AttemptRaises ==
    /\ fwPc = "fetch"
    /\ rtPc = "call"
    /\ fwRequests' = Append(fwRequests, Attempt("raised"))
    /\ IF rtI = Len(backoff_intervals) - 1
       THEN fwPc' = "done" /\ rtPc' = rtPc
       ELSE fwPc' = fwPc /\ rtPc' = "sleep"
    /\ UNCHANGED <<fwListing, fwOffset, fwYielded, rtI, rtLog, rtRet>>
    /\ UNCHANGED <<eqVars, spVars, mergeVars, reVars, syVars, boVars, noVars, trVars, seVars, auVars>>

\* time.sleep(backoff), and the next attempt.
AttemptSleep ==
    /\ fwPc = "fetch"
    /\ rtPc = "sleep"
    /\ rtI' = rtI + 1
    /\ rtPc' = "call"
    /\ UNCHANGED <<rtLog, rtRet>>
    /\ UNCHANGED fwVars
    /\ UNCHANGED <<eqVars, spVars, mergeVars, reVars, syVars, boVars, noVars, trVars, seVars, auVars>>

NextFetch == AttemptReturns \/ AttemptRaises \/ AttemptSleep

\* The calls return and the sleeps end: the thread goes on.
SpecFetch == InitFetch /\ [][NextFetch]_vars /\ WF_vars(NextFetch)

(***************************************************************************)
(* TelegramBot.send_message(message): the message is cut at its newlines   *)
(* and sent in chunks of whole lines.  A line is its length: nothing else  *)
(* of it is read.                                                          *)
(***************************************************************************)
\* telegram.constants.MessageLimit.MAX_TEXT_LENGTH
MAX_TEXT_LENGTH == 4096

LineLengths == {0, 1, MAX_TEXT_LENGTH - 2, MAX_TEXT_LENGTH - 1, MAX_TEXT_LENGTH}

\* for line in lines_to_send: ... -- the number i of lines taken and the
\* length of to_send, from the lines that are left and what was taken.
RECURSIVE TakeLines(_, _, _)
TakeLines(lines, i, len) ==
    IF lines = << >> THEN [i |-> i, len |-> len]
    ELSE IF len + Head(lines) + 1 > MAX_TEXT_LENGTH THEN [i |-> i, len |-> len]
    ELSE TakeLines(Tail(lines), i + 1, len + Head(lines) + 1)

InitSend ==
    /\ AuIdle
    /\ EqIdle
    /\ SpIdle
    /\ MergeIdle
    /\ RtIdle
    /\ FwIdle
    /\ ReIdle
    /\ SyIdle
    /\ BoIdle
    /\ NoIdle
    /\ TrIdle
    /\ sePc = "loop"
    /\ lines_to_send \in SeqsUpTo(LineLengths, MaxLines) \ {<< >>}
    /\ seSent = << >>

\* One iteration of while lines_to_send: the lines that fit are taken, the
\* last newline is cut off and the text is handed to the API; a
\* TelegramError is logged.
SendChunk ==
    /\ sePc = "loop"
    /\ lines_to_send # << >>
    /\ Len(seSent) < MaxSends
    /\ LET taken == TakeLines(lines_to_send, 0, 0)
       IN  /\ lines_to_send' = SubSeq(lines_to_send, taken.i + 1, Len(lines_to_send))
           /\ \E ok \in BOOLEAN :
                 seSent' = Append(seSent,
                                  [len |-> IF taken.len = 0 THEN 0 ELSE taken.len - 1,
                                   ok |-> ok])
    /\ UNCHANGED sePc
    /\ UNCHANGED <<eqVars, spVars, mergeVars, rtVars, fwVars, reVars, syVars, boVars, noVars, trVars, auVars>>

\* lines_to_send is empty: the loop and the function end.
SendDone ==
    /\ sePc = "loop"
    /\ lines_to_send = << >>
    /\ sePc' = "done"
    /\ UNCHANGED <<lines_to_send, seSent>>
    /\ UNCHANGED <<eqVars, spVars, mergeVars, rtVars, fwVars, reVars, syVars, boVars, noVars, trVars, auVars>>

NextSend == SendChunk \/ SendDone

\* The coroutine goes on after each await.
SpecSend == InitSend /\ [][NextSend]_vars /\ WF_vars(NextSend)

(***************************************************************************)
(* The /sync and /list handlers of TelegramBot: one update is dispatched   *)
(* to its handler, which calls the callback when the update is allowed.    *)
(***************************************************************************)
UserIds == {1, 2}

ChatIds == {10, 20}

\* An update without a message, or with one: its text, its sender and its
\* chat.
Updates ==
    {[message |-> None]} \cup
    {[message |-> Some([text |-> t, from_user |-> u, chat |-> [id |-> c]])] :
        t \in {None, Some("/")},
        u \in {None} \cup {Some([id |-> n]) : n \in UserIds},
        c \in ChatIds}

\* Mutant: the chat of the message is not looked at.
_is_comand_allowed_AnyChat(upd) ==
    IF upd.message = None THEN FALSE
    ELSE IF upd.message[1].text = None THEN FALSE
    ELSE IF upd.message[1].from_user = None THEN FALSE
    ELSE IF upd.message[1].from_user[1].id \notin allowed_users THEN FALSE
    ELSE TRUE

_is_comand_allowed(upd) ==
    IF upd.message = None THEN FALSE
    ELSE IF upd.message[1].text = None THEN FALSE
    ELSE IF upd.message[1].from_user = None THEN FALSE
    ELSE IF upd.message[1].from_user[1].id \notin allowed_users THEN FALSE
    ELSE IF upd.message[1].chat.id # chat_id THEN FALSE
    ELSE TRUE

InitAuth ==
    /\ EqIdle
    /\ SpIdle
    /\ MergeIdle
    /\ RtIdle
    /\ FwIdle
    /\ ReIdle
    /\ SyIdle
    /\ BoIdle
    /\ NoIdle
    /\ TrIdle
    /\ SeIdle
    /\ auPc = "handle"
    /\ auHandler \in Commands
    /\ update \in Updates
    /\ allowed_users \in SUBSET UserIds
    /\ chat_id \in ChatIds
    /\ auLog = << >>

\* if not self._is_comand_allowed(update): return
HandlerReturns ==
    /\ auPc = "handle"
    /\ ~_is_comand_allowed(update)
    /\ auPc' = "done"
    /\ UNCHANGED <<auHandler, update, allowed_users, chat_id, auLog>>
    /\ UNCHANGED <<eqVars, spVars, mergeVars, rtVars, fwVars, reVars, syVars, boVars, noVars, trVars, seVars>>

\* TelegramBot._list_command: await self._list_callback(self)
HandlerCallsList ==
    /\ auPc = "handle"
    /\ auHandler = "list"
    /\ _is_comand_allowed(update)
    /\ auLog' = Append(auLog, "list_callback")
    /\ auPc' = "done"
    /\ UNCHANGED <<auHandler, update, allowed_users, chat_id>>
    /\ UNCHANGED <<eqVars, spVars, mergeVars, rtVars, fwVars, reVars, syVars, boVars, noVars, trVars, seVars>>

\* TelegramBot._sync_command: await self._sync_callback(self)
HandlerCallsSync ==
    /\ auPc = "handle"
    /\ auHandler = "sync"
    /\ _is_comand_allowed(update)
    /\ auLog' = Append(auLog, "sync_callback")
    /\ auPc' = "sync"
    /\ UNCHANGED <<auHandler, update, allowed_users, chat_id>>
    /\ UNCHANGED <<eqVars, spVars, mergeVars, rtVars, fwVars, reVars, syVars, boVars, noVars, trVars, seVars>>

\* The sync callback connects to Spotify and to Tidal: it ends when a
\* connection fails, else the playlists are merged.
SyncConnects ==
    /\ auPc = "sync"
    /\ \E remote \in {<<"spotify.connect">>,
                       <<"spotify.connect", "tidal.connect">>,
                       <<"spotify.connect", "tidal.connect", "merge">>} :
        auLog' = auLog \o remote
    /\ auPc' = "done"
    /\ UNCHANGED <<auHandler, update, allowed_users, chat_id>>
    /\ UNCHANGED <<eqVars, spVars, mergeVars, rtVars, fwVars, reVars, syVars, boVars, noVars, trVars, seVars>>

NextAuth ==
    \/ HandlerReturns
    \/ HandlerCallsList
    \/ HandlerCallsSync
    \/ SyncConnects

SpecAuth == InitAuth /\ [][NextAuth]_vars

(***************************************************************************)
(* Properties of Track.__eq__ (SpecEq).                                    *)
(***************************************************************************)
DurationDiff(a, b) == Abs(a.duration - b.duration)

ArtistsIntersect(a, b) == ArtistsLower(a.artists) \cap ArtistsLower(b.artists) # {}

\* x is a prefix of y, letters compared ignoring case.
IsPrefixIgnoreCase(x, y) ==
    /\ Len(x) <= Len(y)
    /\ \A i \in 1..Len(x) : LowerChar(x[i]) = LowerChar(y[i])

AlbumsPrefixRelated(a, b) ==
    \/ IsPrefixIgnoreCase(a.album[1].name, b.album[1].name)
    \/ IsPrefixIgnoreCase(b.album[1].name, a.album[1].name)

\* C3: two tracks with the same ISRC are equal, whatever their durations,
\* artists and albums are.
C3_SameIsrcEqual ==
    (eqOp # "none" /\ eqA.isrc = eqB.isrc) => eqOut.ab

\* C3 witness: same ISRC, durations more than 2 s apart, no artists, albums
\* that are not prefixes of one another, and the tracks compare equal.
C3_Witness ==
    /\ eqOp = "eq"
    /\ eqA.isrc = eqB.isrc
    /\ DurationDiff(eqA, eqB) > ToleranceMs
    /\ eqA.artists = {}
    /\ eqB.artists = {}
    /\ eqA.album # None
    /\ eqB.album # None
    /\ ~AlbumsPrefixRelated(eqA, eqB)
    /\ eqOut.ab

\* C4: a track parsed from Spotify and a track parsed from Tidal whose ISRCs
\* differ only in letter case are equal, whatever their other fields are.
C4_IsrcCaseInsensitive ==
    (eqOp = "parsed" /\ Upper(eqA.isrc) = Upper(eqB.isrc)) => eqOut.ab

\* C5: two tracks with different ISRCs whose durations differ by more than
\* 2 seconds are not equal, whatever their artists and albums are.
C5_DurationMismatchNotEqual ==
    (eqOp # "none" /\ eqA.isrc # eqB.isrc /\ DurationDiff(eqA, eqB) > ToleranceMs)
        => ~eqOut.ab

\* C5 witness: different ISRCs, durations 2.001 s apart, a common artist
\* fragment and the same album name, and the tracks compare unequal.
C5_Witness ==
    /\ eqOp = "eq"
    /\ eqA.isrc # eqB.isrc
    /\ DurationDiff(eqA, eqB) = ToleranceMs + 1
    /\ ArtistsIntersect(eqA, eqB)
    /\ eqA.album # None
    /\ eqA.album = eqB.album
    /\ ~eqOut.ab

\* C6: two tracks with different ISRCs and no common normalized artist
\* fragment are not equal, also when their album names match.
C6_ArtistMismatchNotEqual ==
    (eqOp # "none" /\ eqA.isrc # eqB.isrc /\ ~ArtistsIntersect(eqA, eqB))
        => ~eqOut.ab

\* C6 witness: different ISRCs, equal durations, artists on both sides with
\* no common fragment, one album name a proper prefix of the other, and the
\* tracks compare unequal.
C6_Witness ==
    /\ eqOp = "eq"
    /\ eqA.isrc # eqB.isrc
    /\ DurationDiff(eqA, eqB) = 0
    /\ eqA.artists # {}
    /\ eqB.artists # {}
    /\ ~ArtistsIntersect(eqA, eqB)
    /\ eqA.album # None
    /\ eqB.album # None
    /\ eqA.album # eqB.album
    /\ AlbumsPrefixRelated(eqA, eqB)
    /\ ~eqOut.ab

\* C7: two tracks with different ISRCs, durations at most 2 seconds apart and
\* a common artist fragment are equal when either has no album.
C7_MissingAlbumEqual ==
    (/\ eqOp # "none"
     /\ eqA.isrc # eqB.isrc
     /\ DurationDiff(eqA, eqB) <= ToleranceMs
     /\ ArtistsIntersect(eqA, eqB)
     /\ (eqA.album = None \/ eqB.album = None))
        => eqOut.ab

\* C7 witness: such a pair where only the right track lacks an album, the
\* durations are exactly 2 s apart, and the tracks compare equal.
C7_Witness ==
    /\ eqOp = "eq"
    /\ eqA.isrc # eqB.isrc
    /\ DurationDiff(eqA, eqB) = ToleranceMs
    /\ ArtistsIntersect(eqA, eqB)
    /\ eqA.album # None
    /\ eqB.album = None
    /\ eqOut.ab

\* C8: two tracks with different ISRCs, durations at most 2 seconds apart, a
\* common artist fragment and both albums present are equal exactly when one
\* album name is a prefix of the other, ignoring letter case.
C8_AlbumPrefixIff ==
    (/\ eqOp # "none"
     /\ eqA.isrc # eqB.isrc
     /\ DurationDiff(eqA, eqB) <= ToleranceMs
     /\ ArtistsIntersect(eqA, eqB)
     /\ eqA.album # None
     /\ eqB.album # None)
        => (eqOut.ab <=> AlbumsPrefixRelated(eqA, eqB))

\* C8 witness: such a pair whose album names are "." and "a." (neither a
\* prefix of the other, though "." as an unescaped pattern would match), and
\* the tracks compare unequal.
C8_Witness ==
    /\ eqOp = "eq"
    /\ eqA.isrc # eqB.isrc
    /\ DurationDiff(eqA, eqB) <= ToleranceMs
    /\ ArtistsIntersect(eqA, eqB)
    /\ eqA.album = Some([name |-> <<".">>])
    /\ eqB.album = Some([name |-> <<"a", ".">>])
    /\ ~eqOut.ab

\* C9: track equality is reflexive (a == a, also with no artists) and
\* symmetric (a == b exactly when b == a).
C9_ReflexiveSymmetric ==
    eqOp # "none" => (eqOut.aa /\ (eqOut.ab <=> eqOut.ba))

\* C9 witness: two tracks with different ISRCs where the left album name is a
\* proper prefix of the right one in another letter case, equal both ways,
\* and a track with no artists equal to itself.
C9_Witness ==
    /\ eqOp = "eq"
    /\ eqA.isrc # eqB.isrc
    /\ eqA.album = Some([name |-> <<"A">>])
    /\ eqB.album = Some([name |-> <<"a", ".">>])
    /\ eqOut.ab
    /\ eqOut.ba
    /\ eqOut.aa

\* C9 witness of reflexivity with no artists is part of every state where
\* eqA.artists = {}; this one names it.
C9_ReflexiveNoArtists == eqOp = "eq" /\ eqA.artists = {} /\ eqOut.aa

(***************************************************************************)
(* Properties of the de-duplication (SpecSp).                              *)
(***************************************************************************)
Returned == spRet[1]

\* The returned list holds a track with the fields of x.
ReturnsTrack(x) == \E k \in 1..Len(Returned) : spTracks[Returned[k]] = x

\* Equality partitions the fetched tracks into groups of mutually equal ones.
EqualityGroups ==
    \A i \in 1..Len(spTracks) : \A j \in 1..Len(spTracks) : \A k \in 1..Len(spTracks) :
        (TrackEq(spTracks[i], spTracks[j]) /\ TrackEq(spTracks[j], spTracks[k]))
            => TrackEq(spTracks[i], spTracks[k])

\* C10: of any two fetched tracks that are equal, the returned list holds the
\* earlier one and does not hold the later one (unless the two have the same
\* fields throughout), and the returned tracks are in fetch order.
C10_FirstOccurrenceKept ==
    (spPc = "returned" /\ EqualityGroups) =>
        /\ \A i \in 1..Len(spTracks) : \A j \in (i + 1)..Len(spTracks) :
              TrackEq(spTracks[i], spTracks[j]) =>
                  /\ ReturnsTrack(spTracks[i])
                  /\ spTracks[j] # spTracks[i] => ~ReturnsTrack(spTracks[j])
        /\ \A k \in 1..(Len(Returned) - 1) : Returned[k] < Returned[k + 1]

\* The returned list, as tracks.
ReturnedTracks == [k \in 1..Len(Returned) |-> spTracks[Returned[k]]]

\* C11: the de-duplication pass applied to a de-duplicated list removes
\* nothing: every track of the list stays, in the same order, also when
\* equality is not transitive on the fetched tracks.
C11_DedupIdempotent ==
    spPc = "returned" =>
        DedupPass(ReturnedTracks) = [k \in 1..Len(Returned) |-> k]

\* C11 witness: three tracks were fetched on which equality is not
\* transitive, and the pass removed some of them.
C11_Witness ==
    /\ spPc = "returned"
    /\ Len(spTracks) = 3
    /\ ~EqualityGroups
    /\ Len(Returned) < 3

\* C31: no two tracks of the returned list are equal, and every fetched
\* track is in the returned list or equals a track of it, also when
\* equality is not transitive on the fetched tracks.
C31_ReturnedDistinctAndCovering ==
    spPc = "returned" =>
        /\ \A j \in 1..Len(Returned) : \A k \in 1..Len(Returned) :
              TrackEq(ReturnedTracks[j], ReturnedTracks[k]) => j = k
        /\ \A i \in 1..Len(spTracks) :
              \E k \in 1..Len(Returned) : TrackEq(spTracks[i], ReturnedTracks[k])

\* C31 witness: three tracks were fetched on which equality is not
\* transitive, and two of them were returned.
C31_Witness ==
    /\ spPc = "returned"
    /\ Len(spTracks) = 3
    /\ ~EqualityGroups
    /\ Len(Returned) = 2

(***************************************************************************)
(* Properties of merge_playlist (Spec).                                    *)
(***************************************************************************)
Classes == {"added", "skipped", "not_found", "add_error"}

\* The source indices that f puts in class c, in the order processed.
IndicesOf(f, c) ==
    SelectSeq([n \in 1..Len(playlist_tracks) |-> n], LAMBDA n : f[n] = c)

\* The entry e of class c is the one the source track src contributes: the
\* source track itself when it is not found, else a track equal to it (the
\* existing one when skipped, the found one when added or in error).
EntryOf(c, e, src) ==
    IF c = "not_found" THEN e = src
    ELSE /\ TrackEq(e, src)
         /\ c = "skipped" => \E k \in 1..Len(existing_tracks) : existing_tracks[k] = e

\* f assigns every source track one class, and each of the four sequences
\* holds exactly the entries of its source tracks, in the order processed.
Partitions(f) ==
    \A c \in Classes :
        /\ Len(result[c]) = Len(IndicesOf(f, c))
        /\ \A k \in 1..Len(result[c]) :
              EntryOf(c, result[c][k], playlist_tracks[IndicesOf(f, c)[k]])

\* C1: when a merge returns a result, added, skipped, not_found and add_error
\* partition the source tracks: each source track contributes one entry to
\* one of the four, in the order processed, and the four lengths add up to
\* the number of source tracks.
C1_ResultPartitionsSource ==
    ret = "result" =>
        /\ \E f \in [1..Len(playlist_tracks) -> Classes] : Partitions(f)
        /\ Len(result.added) + Len(result.skipped) + Len(result.not_found)
              + Len(result.add_error) = Len(playlist_tracks)

\* C1 witness: a merge of two source tracks has returned a result with one
\* track added and the other not found.
C1_Witness ==
    /\ ret = "result"
    /\ Len(playlist_tracks) = 2
    /\ Len(result.added) = 1
    /\ Len(result.not_found) = 1

\* The ISRCs of the tracks the playlist merged into held when the merge began.
StartIsrcs == {start_tracks[k].isrc[1] : k \in {j \in 1..Len(start_tracks) : start_tracks[j].isrc # None}}

\* C2: no add_by_isrc call is issued for a track the destination playlist
\* held when the merge started, whatever the remote calls returned.
C2_NoAddOfExistingTrack ==
    \A k \in 1..Len(calls) :
        calls[k].op = "add" => calls[k].isrc \notin StartIsrcs

\* The calls of one operation, as positions in calls.
CallsOf(op) == {k \in 1..Len(calls) : calls[k].op = op}

\* The folder held no playlist of the name when the merge began: there is
\* no playlist, or the only one is the one this merge created.
AbsentAtStart ==
    \/ playlists = << >>
    \/ Len(playlists) = 1 /\ CallsOf("create_playlist") # {}

\* C17: when the destination playlist does not exist, a merge that returns
\* a result has created it with one create call and has skipped no track;
\* when every source track was found (an add call for each) and every add
\* succeeded (the new playlist holds as many tracks), added holds a track
\* equal to each source track, in source order, and not_found and add_error
\* are empty.
C17_NewPlaylistAddsAll ==
    (AbsentAtStart /\ ret = "result") =>
        /\ Cardinality(CallsOf("create_playlist")) = 1
        /\ Len(playlists) = 1
        /\ result.skipped = << >>
        /\ (/\ Cardinality(CallsOf("add")) = Len(playlist_tracks)
            /\ Len(playlists[tidal_playlist].tracks) = Len(playlist_tracks)) =>
                /\ Len(result.added) = Len(playlist_tracks)
                /\ \A k \in 1..Len(playlist_tracks) :
                      TrackEq(result.added[k], playlist_tracks[k])
                /\ result.not_found = << >>
                /\ result.add_error = << >>

\* C17 witness: the playlist was absent, two different source tracks were
\* found and added.
C17_Witness ==
    /\ AbsentAtStart
    /\ ret = "result"
    /\ playlist_tracks = <<SrcU1, SrcX7>>
    /\ Cardinality(CallsOf("add")) = 2
    /\ Len(playlists[tidal_playlist].tracks) = 2
    /\ Len(result.added) = 2

\* The source tracks dealt with so far that equal a fetched existing track.
SkippedIndices ==
    LET InExisting(n) == n < track_index /\ HasEqual(existing_tracks, playlist_tracks[n])
    IN  SelectSeq([n \in 1..Len(playlist_tracks) |-> n], InExisting)

\* C18: the source tracks that equal a track fetched from the destination
\* playlist are the skipped ones: skipped holds, for each in turn, the first
\* fetched track equal to it; no search is issued for such a track, and an
\* add is only issued right after a search.
C18_ExistingTrackSkipped ==
    /\ Len(result.skipped) = Len(SkippedIndices)
    /\ \A k \in 1..Len(SkippedIndices) :
          result.skipped[k] = FirstEqualTo(existing_tracks, playlist_tracks[SkippedIndices[k]])
    /\ \A n \in 1..Len(playlist_tracks) :
          HasEqual(existing_tracks, playlist_tracks[n]) =>
              \A k \in CallsOf("search") : calls[k].track # n
    /\ \A k \in CallsOf("add") : k > 1 /\ calls[k - 1].op = "search"

\* C18 witness: of two source tracks the first equals, by ISRC, a track of
\* the destination playlist and was skipped; the second was added.
C18_Witness ==
    /\ ret = "result"
    /\ playlist_tracks = <<SrcU1, SrcX7>>
    /\ Len(result.skipped) = 1
    /\ result.skipped[1].isrc = SrcU1.isrc
    /\ result.skipped[1] # SrcU1
    /\ Len(result.added) = 1

\* C19: a merge in which a structural step failed returns failure and
\* issues no search and no add_by_isrc: this holds of a merge that returned
\* None, and of a merge in which the listing of the folder's items failed.
C19_StructuralFailureAborts ==
    (ret = "None" \/ CallsOf("items_failed") # {}) =>
        /\ ret # "result"
        /\ CallsOf("search") = {}
        /\ CallsOf("add") = {}

\* The playlist this merge created, if it created one.
CreatedByMerge ==
    IF CallsOf("create_playlist") # {} /\ tidal_playlist # 0
    THEN {playlists[tidal_playlist]}
    ELSE {}

\* C20: after a merge has returned failure, a playlist it created has the
\* requested description, when one was requested, and is public.
C20_NoHalfConfiguredPlaylist ==
    ret = "None" =>
        \A p \in CreatedByMerge :
            /\ playlist_description # None => p.description = playlist_description[1]
            /\ p.public

\* C21: a merge that has reached the loop over the source tracks does not
\* fail: no step of the loop returns None, a merge that returned None has
\* searched nothing and classified nothing, and a merge that returned a
\* result has dealt with every source track, those after a track that was
\* not found or not added included.
C21_TrackOutcomesNotFatal ==
    /\ pc \in {"loop", "search", "add"} => ret = "pending"
    /\ ret = "None" => (CallsOf("search") = {} /\ result = EmptyResult)
    /\ ret = "result" =>
          /\ track_index = Len(playlist_tracks) + 1
          /\ \A n \in 1..Len(playlist_tracks) :
                ~HasEqual(existing_tracks, playlist_tracks[n]) =>
                    \E k \in CallsOf("search") : calls[k].track = n

\* C21 witness: the first of two source tracks was not found or could not
\* be added, the second one was searched and added, and the merge returned
\* a result.
C21_Witness ==
    /\ ret = "result"
    /\ Len(playlist_tracks) = 2
    /\ Len(result.not_found) + Len(result.add_error) = 1
    /\ Len(result.added) = 1
    /\ calls[Len(calls)].op = "add"

\* The entry that source track n contributes under the classification f: the
\* entry of its class at the rank n has among the source tracks of the class.
EntryAt(f, n) ==
    result[f[n]][Cardinality({m \in 1..n : f[m] = f[n]})]

\* The entries of the source tracks that f classifies added or skipped, by
\* the position of their source track.
PresentInSourceOrder(f) ==
    LET IsPresent(n) == f[n] \in {"added", "skipped"}
        present == SelectSeq([n \in 1..Len(playlist_tracks) |-> n], IsPresent)
    IN  [k \in 1..Len(present) |-> EntryAt(f, present[k])]

NamedTarget == {k \in 1..Len(folder_items) : IsTarget(folder_items[k])}

\* C29: the folder never holds two playlists of the target name, and
\* create_playlist is called only when the folder holds none: after the
\* call the only one it may hold is the one the call created.
C29_NoSecondPlaylist ==
    /\ Cardinality(NamedTarget) <= 1
    /\ CallsOf("create_playlist") # {} =>
          \A k \in NamedTarget : folder_items[k].id = tidal_playlist

\* C30: within one merge no two add_by_isrc calls carry the same ISRC.
C30_NoTrackAddedTwice ==
    \A j \in CallsOf("add") : \A k \in CallsOf("add") :
        calls[j].isrc = calls[k].isrc => j = k

(***************************************************************************)
(* Properties of _retry_on_error (SpecRt).                                 *)
(***************************************************************************)
CallIndices == {k \in 1..Len(rtLog) : rtLog[k].ev = "call"}

SleepIndices == {k \in 1..Len(rtLog) : rtLog[k].ev = "sleep"}

\* Every invocation so far raised a transient error.
AllTransient == \A k \in CallIndices : rtLog[k].out \in TransientErrors

\* The seconds slept, in order.
Slept ==
    LET IsSleep(ev) == ev.ev = "sleep"
        sleeps == SelectSeq(rtLog, IsSleep)
    IN  [k \in 1..Len(sleeps) |-> sleeps[k].value]

\* C12: func is invoked at most once per entry of the schedule; when every
\* invocation raised a transient error the wrapper returns None, after that
\* many invocations, and raises nothing; an invocation that returns is the
\* last one and its value is what the wrapper returns.
C12_GivesUpWithNone ==
    /\ Cardinality(CallIndices) <= Len(backoff_intervals)
    /\ (rtPc = "done" /\ AllTransient) =>
          /\ rtRet = Returns("None")
          /\ Cardinality(CallIndices) = Len(backoff_intervals)
    /\ \A k \in CallIndices :
          rtLog[k].out = "return" =>
              /\ k = Len(rtLog)
              /\ rtPc = "done"
              /\ rtRet = Returns(rtLog[k].value)

\* C12 witness: the wrapper gave up after six invocations that all failed
\* transiently.
C12_Witness ==
    /\ rtPc = "done"
    /\ AllTransient
    /\ Cardinality(CallIndices) = 6
    /\ rtRet = Returns("None")

\* C13: before the wrapper gives up on a call that always fails transiently
\* it has slept 1, 2, 5, 10, 30 and 60 seconds, in that order, and has
\* invoked the call again after each sleep.
C13_SleepsWholeSchedule ==
    (rtPc = "done" /\ AllTransient) =>
        /\ Slept = backoff_intervals
        /\ \A k \in SleepIndices : k < Len(rtLog) /\ rtLog[k + 1].ev = "call"

\* C14: an invocation that raises an error that is not transient is the
\* last event of the wrapper, which raises that error: no invocation and no
\* sleep follows it.
C14_OtherErrorPropagates ==
    \A k \in CallIndices :
        rtLog[k].out \in OtherErrors =>
            /\ k = Len(rtLog)
            /\ rtPc = "done"
            /\ rtRet = Raises(rtLog[k].out)

\* C14 witness: the third invocation, after two transient failures and two
\* sleeps, raised an error that is not transient.
C14_Witness ==
    /\ rtPc = "done"
    /\ Len(rtLog) = 5
    /\ rtLog[5].out \in OtherErrors
    /\ rtRet = Raises(rtLog[5].out)

(***************************************************************************)
(* Properties of _fetch_with_limit (SpecFw).                               *)
(***************************************************************************)
AllPagesFetched == \A k \in 1..Len(fwRequests) : fwRequests[k].ok

\* The number of the pages of the listing up to its first short page.
PagesOf(listing) == (Len(listing) \div Limit) + 1

\* C15: the offsets requested are 0, 50, 100, ... in this order; when every
\* page was fetched and the listing has ended, the consumer has every item
\* in the original order and no page was requested after the first page of
\* fewer than 50 items.
C15_YieldsAllPagesInOrder ==
    /\ \A k \in 1..Len(fwRequests) : fwRequests[k].offset = (k - 1) * Limit
    /\ (fwPc = "done" /\ AllPagesFetched) =>
          /\ fwYielded = fwListing
          /\ Len(fwRequests) = PagesOf(fwListing)

\* C15 witness: a listing of 130 items was read with 3 requests, pages of
\* 50, 50 and 30 items.
C15_Witness ==
    /\ fwPc = "done"
    /\ AllPagesFetched
    /\ Len(fwListing) = 130
    /\ Len(fwRequests) = 3
    /\ Len(fwYielded) = 130

\* C16: when the fetch of a page fails, the listing ends there: the failed
\* request is the last one, and the consumer has the items of the pages
\* before it, in order, and nothing else.
C16_FailedPageEndsListing ==
    \A k \in 1..Len(fwRequests) :
        ~fwRequests[k].ok =>
            /\ k = Len(fwRequests)
            /\ fwPc = "done"
            /\ fwYielded = SubSeq(fwListing, 1, (k - 1) * Limit)

\* C16 witness: the second page of a listing of more than 100 items failed
\* and the consumer has the 50 items of the first page.
C16_Witness ==
    /\ fwPc = "done"
    /\ Len(fwListing) > 100
    /\ Len(fwRequests) = 2
    /\ ~fwRequests[2].ok
    /\ Len(fwYielded) = 50

(***************************************************************************)
(* Properties of reorganize_playlist (SpecRe).                             *)
(***************************************************************************)
\* The order of the destination after the call of entry k.
OrderAfter(k) == IF k < Len(reLog) THEN reLog[k + 1].before ELSE reDest

SameTracks(o, p) ==
    /\ Len(o) = Len(p)
    /\ {o[k] : k \in 1..Len(o)} = {p[k] : k \in 1..Len(p)}

\* C23: a call that does not fail reports changed exactly when the
\* destination's order differed from the desired order; after changed the
\* destination has the desired order and the same tracks; a call that
\* follows a call that did not fail reports unchanged and moves nothing.
C23_ReorderChangedIdempotent ==
    \A k \in 1..Len(reLog) :
        /\ reLog[k].ret = "changed" =>
              /\ reLog[k].before # reDesired
              /\ OrderAfter(k) = reDesired
              /\ SameTracks(OrderAfter(k), reLog[k].before)
        /\ reLog[k].ret = "unchanged" =>
              /\ reLog[k].before = reDesired
              /\ OrderAfter(k) = reLog[k].before
              /\ reLog[k].moves = 0
        /\ (k > 1 /\ reLog[k - 1].ret # "failure") =>
              /\ reLog[k].ret = "unchanged"
              /\ reLog[k].moves = 0

\* C23 witness: from [A, B, C] and the desired order [C, A, B] the first
\* call reported changed, the second one unchanged, and the destination is
\* [C, A, B].
C23_Witness ==
    /\ Len(reLog) = 2
    /\ reLog[1].before = <<"A", "B", "C">>
    /\ reDesired = <<"C", "A", "B">>
    /\ reLog[1].ret = "changed"
    /\ reLog[2].ret = "unchanged"
    /\ reDest = <<"C", "A", "B">>

(***************************************************************************)
(* Properties of _merge_spotify_playlists (SpecSync).                      *)
(***************************************************************************)
SyncCalls(op) == {k \in 1..Len(syLog) : syLog[k].op = op}

\* C24: reorganize_playlist is not called in a sync in which a call of
\* merge_playlists returned None.
C24_NoReorderAfterFailedMerge ==
    \A k \in SyncCalls("reorganize_playlist") :
        \A j \in SyncCalls("merge_playlists") : syLog[j].ret # "None"

(***************************************************************************)
(* Properties of the bot (SpecBot).                                        *)
(***************************************************************************)
\* C25: while a sync is in the sleep of a retry, a command that was sent
\* can be accepted, and an accepted /list that is next in line can be
\* answered.
C25_SyncDoesNotStallCommands ==
    boSync = "sleep" =>
        /\ boSent # << >> => ENABLED BotPoll
        /\ (boQueue # << >> /\ Head(boQueue) = "list") => ENABLED BotList

(***************************************************************************)
(* Properties of _normalize_artist_name (SpecNorm).                        *)
(***************************************************************************)
\* The fragments of s between separators.
RECURSIVE FragmentsFrom(_, _)
FragmentsFrom(s, cur) ==
    IF s = << >> THEN {cur}
    ELSE IF s[1] \in Separators THEN {cur} \cup FragmentsFrom(Tail(s), << >>)
    ELSE FragmentsFrom(Tail(s), Append(cur, s[1]))

Fragments(s) == FragmentsFrom(s, << >>)

HasSeparator(s) == \E i \in 1..Len(s) : s[i] \in Separators

\* C26: the normalized name is the set of the fragments of the lowercased
\* name without diacritics, split at & and at ,; a name that differs in
\* case, diacritics or the order of its fragments has the same set; the
\* unsplit name is not in the set of a name with a separator.
C26_NormalizedFragments ==
    noPc = "done" =>
        LET lower == NfdAscii(Lower(Strip(noName)))
        IN  /\ noOut = Fragments(lower)
            /\ noOtherOut = noOut
            /\ HasSeparator(noName) => lower \notin noOut

(***************************************************************************)
(* Properties of one source track of the merge loop (SpecTrack).           *)
(***************************************************************************)
\* The candidates the search returned; none when it failed.
Candidates == IF trSearched = None THEN << >> ELSE trSearched[1]

\* The positions of the candidates that equal the source track.
EqualCandidates ==
    {k \in 1..Len(Candidates) :
        /\ TidalParseTrack(Candidates[k]) # None
        /\ TrackEq(TidalParseTrack(Candidates[k])[1], trTrack[1])}

FirstEqualCandidate ==
    TidalParseTrack(Candidates[CHOOSE k \in EqualCandidates :
                                   \A j \in EqualCandidates : k <= j])[1]

\* C27: a source track that no existing track equals is not_found, with
\* the source track recorded, exactly when no candidate of the search
\* equals it; otherwise one add_by_isrc call carries the ISRC of the first
\* equal candidate, and that candidate is recorded in added when the call
\* returned True and in add_error when it returned False or None.
C27_FirstEqualCandidateAdded ==
    trPc = "done" =>
        IF EqualCandidates = {}
        THEN /\ trResult = AppendTo(EmptyResult, "not_found", trTrack[1])
             /\ trAdds = << >>
        ELSE /\ Len(trAdds) = 1
             /\ trAdds[1].isrc = FirstEqualCandidate.isrc
             /\ trResult = AppendTo(EmptyResult,
                                    IF trAdds[1].ret = "True" THEN "added" ELSE "add_error",
                                    FirstEqualCandidate)

\* C27 witness: the search returned CatalogG2 then CatalogU1 for a track
\* that equals both, CatalogG2 was added by its ISRC and the add failed.
C27_Witness ==
    /\ trPc = "done"
    /\ trTrack = Some(SrcU1G2)
    /\ trSearched = Some(<<CatalogG2, CatalogU1>>)
    /\ trAdds = <<[isrc |-> <<"G", "2">>, ret |-> "None"]>>
    /\ Len(trResult.add_error) = 1

(***************************************************************************)
(* Properties of _fetch_with_limit with its attempts (SpecFetch).          *)
(***************************************************************************)
AttemptsAt(off) == {k \in 1..Len(fwRequests) : fwRequests[k].offset = off}

ReturnedAttempts == {k \in 1..Len(fwRequests) : fwRequests[k].out = "returned"}

\* The attempt gave the page up: it raised at the last backoff index.
GaveUp(k) ==
    /\ fwRequests[k].out = "raised"
    /\ fwRequests[k].i = Len(backoff_intervals) - 1

\* The attempt returned a page shorter than the limit.
ShortPage(k) ==
    /\ fwRequests[k].out = "returned"
    /\ Len(PageAt(fwListing, fwRequests[k].offset)) < Limit

\* No page is attempted more than 6 times; the attempt that gives a page
\* up or returns a short page is the last one, and the adapter has stopped
\* exactly when there is one; a listing read to its end without a failed
\* page cost Len \div 50 + 1 successful requests, the last one returning
\* the rest (nothing, when the length is a multiple of 50).
FetchBounded ==
    /\ \A k \in 1..Len(fwRequests) :
          /\ Cardinality(AttemptsAt(fwRequests[k].offset)) <= 6
          /\ (GaveUp(k) \/ ShortPage(k)) => k = Len(fwRequests)
    /\ fwPc = "done" <=>
          /\ fwRequests # << >>
          /\ GaveUp(Len(fwRequests)) \/ ShortPage(Len(fwRequests))
    /\ (fwPc = "done" /\ ShortPage(Len(fwRequests))) =>
          /\ Cardinality(ReturnedAttempts) = (Len(fwListing) \div Limit) + 1
          /\ Len(PageAt(fwListing, fwOffset)) = Len(fwListing) % Limit
          /\ fwYielded = fwListing

\* C28: the adapter terminates for every listing and every pattern of
\* transient errors; each page is attempted at most 6 times, the adapter
\* stops at the first page that failed or is shorter than 50 items, and a
\* listing of a multiple of 50 items costs one more request, which returns
\* an empty page.
C28_FetchTerminates == []FetchBounded /\ <>(fwPc = "done")

\* C28 witness: a listing of 100 items was read in three successful
\* requests, the last one empty, the second page after five failed
\* attempts.
C28_Witness ==
    /\ fwPc = "done"
    /\ Len(fwListing) = 2 * Limit
    /\ Cardinality(ReturnedAttempts) = 3
    /\ Cardinality(AttemptsAt(Limit)) = 6
    /\ fwOffset = 2 * Limit
    /\ PageAt(fwListing, fwOffset) = << >>
    /\ fwYielded = fwListing

\* The calls that write to the destination.
SyncWrites ==
    SyncCalls("create_playlist") \cup SyncCalls("merge_playlists")
        \cup SyncCalls("reorganize_playlist")

\* The last lookup of the source playlists, 0 before the first one.
LastLookup ==
    IF SyncCalls("get_playlists") = {} THEN 0
    ELSE CHOOSE k \in SyncCalls("get_playlists") :
             \A j \in SyncCalls("get_playlists") : j <= k

\* C32: the source playlists are looked up at most 3 times; after a third
\* lookup that does not find them all the sync ends with a warning message
\* and has written nothing to the destination; a call that creates, merges
\* or reorders comes after a lookup that found them all, which is the last
\* lookup.
C32_WritesOnlyAfterAllFound ==
    /\ Cardinality(SyncCalls("get_playlists")) <= 3
    /\ \A k \in SyncWrites :
          /\ LastLookup < k
          /\ syLog[LastLookup].ret = "all"
    /\ (Cardinality(SyncCalls("get_playlists")) = 3 /\ syLog[LastLookup].ret = "missing") =>
          /\ syPc = "done"
          /\ SyncWrites = {}
          /\ syLog[Len(syLog)] = Message("not all found")

\* C32 witness: three lookups missed a source playlist and the sync ended
\* with the warning.
C32_Witness ==
    /\ syPc = "done"
    /\ syLog = <<SpotifyCall("missing"), SpotifyCall("missing"), SpotifyCall("missing"),
                 Message("not all found")>>

\* The positions of a message in the log.
Messages(text) == {k \in 1..Len(syLog) : syLog[k] = Message(text)}

\* C33: the notice that there are no new tracks is sent only when
\* report_no_update is set and no merge of the sync added a track (a merge
\* that added tracks is followed by the message that the playlist was
\* synced).
C33_NoNewTracksOnlyWhenNoneAdded ==
    Messages("no new tracks") # {} =>
        /\ report_no_update
        /\ Messages("synced") = {}

(***************************************************************************)
(* Properties of TelegramBot.send_message (SpecSend).                      *)
(***************************************************************************)
\* C34: every iteration of the sending loop leaves fewer lines to send,
\* every chunk handed to the Telegram API is at most MAX_TEXT_LENGTH long,
\* and the function ends.
C34_SendTerminates ==
    /\ [][seSent' # seSent => Len(lines_to_send') < Len(lines_to_send)]_vars
    /\ [](\A k \in 1..Len(seSent) : seSent[k].len <= MAX_TEXT_LENGTH)
    /\ <>(sePc = "done")

(***************************************************************************)
(* Properties of the command handlers (SpecAuth).                          *)
(***************************************************************************)
\* The update carries a text message from an allowed user in the
\* configured chat.
Authorized ==
    /\ update.message # None
    /\ update.message[1].text # None
    /\ update.message[1].from_user # None
    /\ \E u \in allowed_users : update.message[1].from_user = Some([id |-> u])
    /\ update.message[1].chat.id = chat_id

\* C35: a callback is invoked, and a remote call made, only for an
\* authorized update; the handler of any other update ends with no
\* callback and no remote call.
C35_CallbacksOnlyWhenAuthorized ==
    /\ auLog # << >> => Authorized
    /\ (auPc = "done" /\ ~Authorized) => auLog = << >>

\* C35 witness: the /sync handler got an update from a user who is not
\* allowed, while another user is, and ended without a callback.
C35_Witness ==
    /\ auPc = "done"
    /\ auHandler = "sync"
    /\ allowed_users = {1}
    /\ update.message = Some([text |-> Some("/"), from_user |-> Some([id |-> 2]),
                               chat |-> [id |-> chat_id]])
    /\ auLog = << >>

=============================================================================
